---------------------------- MODULE Spec2Model ----------------------------
(***************************************************************************)
(* bacon-mcp: the diagnostic parser, the test-output parser and the        *)
(* tool-call handler of the MCP server, modelled from utils.ts             *)
(* (src/unnamed/part_002) and index.ts (src/src/index.ts, lines 711-1667). *)
(*                                                                         *)
(* Text is a sequence of units.  A unit is one character [c |-> "x"], one  *)
(* complete serialized JSON document [j |-> value] (cargo writes one       *)
(* document per line; a document holds no newline and is not split by the  *)
(* model), or one literal fragment of a template string [w |-> "..."].     *)
(* JavaScript values are tagged records, so that undefined, null, strings, *)
(* numbers, arrays and objects stay distinct the way they are in the code. *)
(***************************************************************************)
EXTENDS Integers, Sequences, FiniteSets, TLC

VARIABLES
    output,       \* the text handed to parseCargoDiagnostics / parseTestOutput
    called,       \* whether the parser under study has been applied to output
    diagnostics,  \* what parseCargoDiagnostics(output) gave: [raised, value]
    testResult,   \* what parseTestOutput(output) gave: [tests, summary]
    request,      \* request.params of the tool call: [name, args]
    pc,           \* where the tool-call handler stands
    local,        \* the handler's variables that live across its awaits
    proc,         \* the child process of the runCargoCommand in flight
    promise,      \* the promise of the runCargoCommand in flight
    spawned,      \* the argument lists spawn("cargo", ...) was called with
    response      \* what the handler returned to the transport

parserVars == <<output, called, diagnostics, testResult>>
handlerVars == <<request, pc, local, proc, promise, spawned, response>>
vars == <<parserVars, handlerVars>>

\* no parser call is under study
ParserIdle ==
    /\ output = <<>>
    /\ called = FALSE
    /\ diagnostics = [raised |-> FALSE, value |-> <<>>]
    /\ testResult = [tests |-> <<>>, summary |-> <<>>]

\* code is the exit status the close event delivered, undefined before it;
\* outBytes and errBytes are the bytes the two pipes have delivered so far
NoProc ==
    [phase |-> "none", stdout |-> <<>>, stderr |-> <<>>, events |-> 0,
     code |-> [t |-> "undefined"], outBytes |-> <<>>, errBytes |-> <<>>]
NoPromise ==
    [settled |-> FALSE,
     result |-> [stdout |-> <<>>, stderr |-> <<>>, exitCode |-> 0]]
NoLocal ==
    [stage |-> 0, output |-> <<>>, issues |-> 0, fmtFailed |-> FALSE,
     info |-> [name |-> <<>>, version |-> <<>>]]
NoResponse == [sent |-> FALSE, text |-> <<>>, isError |-> FALSE]

\* no request is being handled
HandlerIdle ==
    /\ request = [name |-> "", args |-> [t |-> "undefined"]]
    /\ pc = "idle"
    /\ local = NoLocal
    /\ proc = NoProc
    /\ promise = NoPromise
    /\ spawned = <<>>
    /\ response = NoResponse

---------------------------------------------------------------------------
(* Bounds of the model *)

\* the most lines of a cargo JSON text the checks enumerate
MaxLines == 2
\* the most spans of one compiler message the checks enumerate
MaxSpans == 2

---------------------------------------------------------------------------
(* JavaScript values *)

Undefined == [t |-> "undefined"]
JNull == [t |-> "null"]
JStr(s) == [t |-> "string", s |-> s]
JNum(n) == [t |-> "number", n |-> n]
JArr(a) == [t |-> "array", a |-> a]
JObj(f) == [t |-> "object", f |-> f]

\* v is null or undefined: reading a property of v throws a TypeError,
\* and v ?? w is w
IsNullish(v) == v.t \in {"undefined", "null"}

\* v.name for a v that is not nullish; a property that is not there reads
\* as undefined
Prop(v, name) ==
    IF v.t = "object" /\ name \in DOMAIN v.f THEN v.f[name] ELSE Undefined

\* v === "s"
IsString(v, s) == v.t = "string" /\ v.s = s

\* v ?? w
Coalesce(v, w) == IF IsNullish(v) THEN w ELSE v

JBool(b) == [t |-> "boolean", b |-> b]

\* the truth value of v in a condition
Truthy(v) ==
    CASE v.t \in {"undefined", "null"} -> FALSE
      [] v.t = "string" -> v.s # ""
      [] v.t = "number" -> v.n # 0
      [] v.t = "boolean" -> v.b
      [] OTHER -> TRUE

---------------------------------------------------------------------------
(* Text *)

Ch(c) == [c |-> c]
Doc(v) == [j |-> v]
Lit(w) == [w |-> w]

\* the text of a sequence of characters
S(cs) == [i \in DOMAIN cs |-> Ch(cs[i])]

IsChar(u, c) == "c" \in DOMAIN u /\ u.c = c
NL == Ch("\n")
IsNewline(u) == IsChar(u, "\n")
\* what \s matches and trim() removes
IsSpace(u) == "c" \in DOMAIN u /\ u.c \in {" ", "\t", "\r", "\n"}

\* the index of the first newline of t, 0 when there is none
RECURSIVE FirstNewline(_, _)
FirstNewline(t, i) ==
    IF i > Len(t) THEN 0
    ELSE IF IsNewline(t[i]) THEN i
    ELSE FirstNewline(t, i + 1)

\* t.split("\n")
RECURSIVE Split(_)
Split(t) ==
    LET i == FirstNewline(t, 1)
    IN  IF i = 0 THEN <<t>>
        ELSE <<SubSeq(t, 1, i - 1)>> \o Split(SubSeq(t, i + 1, Len(t)))

\* l.trim() is not the empty string
TrimNonEmpty(l) == \E i \in DOMAIN l : ~IsSpace(l[i])

\* l.trim()
RECURSIVE Trim(_)
Trim(l) ==
    IF l = <<>> THEN l
    ELSE IF IsSpace(l[1]) THEN Trim(Tail(l))
    ELSE IF IsSpace(l[Len(l)]) THEN Trim(SubSeq(l, 1, Len(l) - 1))
    ELSE l

\* the lines joined by "\n"
RECURSIVE Join(_)
Join(ls) ==
    IF ls = <<>> THEN <<>>
    ELSE IF Len(ls) = 1 THEN ls[1]
    ELSE ls[1] \o <<NL>> \o Join(Tail(ls))

\* JSON.parse(line): a line that is one serialized document between
\* optional white space parses to that document's value; any other line of
\* the texts modelled here (prose, a document followed by more text) is a
\* SyntaxError
JSONParse(line) ==
    LET l == Trim(line)
    IN  IF Len(l) = 1 /\ "j" \in DOMAIN l[1]
        THEN [threw |-> FALSE, value |-> l[1].j]
        ELSE [threw |-> TRUE, value |-> Undefined]

---------------------------------------------------------------------------
(* parseCargoDiagnostics *)

\* the index of the span that spans.find((s) => s.label !== null) stops at:
\* the first span whose label is not null (an absent label reads as
\* undefined, which is not null), or the first null/undefined element, whose
\* .label throws; 0 when find runs off the end
RECURSIVE FindStop(_, _)
FindStop(spans, i) ==
    IF i > Len(spans) THEN 0
    ELSE IF IsNullish(spans[i]) THEN i
    ELSE IF Prop(spans[i], "label").t # "null" THEN i
    ELSE FindStop(spans, i + 1)

\* m.spans.find((s) => s.label !== null): [threw, value]
FindLabelled(spans) ==
    LET i == FindStop(spans, 1)
    IN  IF i = 0 THEN [threw |-> FALSE, value |-> Undefined]
        ELSE IF IsNullish(spans[i]) THEN [threw |-> TRUE, value |-> Undefined]
        ELSE [threw |-> FALSE, value |-> spans[i]]

\* spans[0]
FirstSpan(spans) == IF Len(spans) >= 1 THEN spans[1] ELSE Undefined

\* a parser that locates a record without spans at a placeholder
PlaceholderSpan ==
    JObj([file_name |-> JStr("<unknown>"), line_start |-> JNum(0),
          column_start |-> JNum(0)])
PrimarySpanOrPlaceholder(spans) ==
    Coalesce(Coalesce(FindLabelled(spans).value, FirstSpan(spans)),
             PlaceholderSpan)

\* const primarySpan = m.spans.find(...) ?? m.spans[0]
PrimarySpan(spans) == Coalesce(FindLabelled(spans).value, FirstSpan(spans))

\* m.code?.code
CodeOf(m) ==
    LET c == Prop(m, "code")
    IN  IF IsNullish(c) THEN Undefined ELSE Prop(c, "code")

\* the object pushed for message m and its primary span
MakeDiagnostic(m, primarySpan) ==
    [level |-> Prop(m, "level"),
     code |-> CodeOf(m),
     message |-> Prop(m, "message"),
     file |-> Prop(primarySpan, "file_name"),
     line |-> Prop(primarySpan, "line_start"),
     column |-> Prop(primarySpan, "column_start"),
     rendered |-> Prop(m, "rendered"),
     suggestion |-> Coalesce(Prop(primarySpan, "suggested_replacement"),
                             Undefined)]

Throw == [kind |-> "throw"]
Skip == [kind |-> "skip"]
Push(d) == [kind |-> "push", d |-> d]

\* the body of the try block for one line: a diagnostic is pushed, nothing
\* is pushed, or an exception leaves the block
LineBody(line) ==
    LET p == JSONParse(line)
        msg == p.value
        m == Prop(msg, "message")
        spans == Prop(m, "spans")
    IN  IF p.threw THEN Throw
        ELSE IF IsNullish(msg) THEN Throw
        ELSE IF ~(IsString(Prop(msg, "reason"), "compiler-message") /\ Truthy(m))
        THEN Skip
        ELSE IF spans.t # "array" THEN Throw
        ELSE IF FindLabelled(spans.a).threw THEN Throw
        ELSE IF Truthy(PrimarySpan(spans.a))
        THEN Push(MakeDiagnostic(m, PrimarySpan(spans.a)))
        ELSE Skip

\* a loop body without the try block: the exception leaves the function
NoTryCatch(outcome) == outcome

\* try { ... } catch { /* skip non-JSON lines */ }
TryCatch(outcome) == IF outcome.kind = "throw" THEN Skip ELSE outcome

\* output.split("\n").filter((l) => l.trim())
NonBlankLines(text) == SelectSeq(Split(text), TrimNonEmpty)

\* a loop that drops a diagnostic equal to one it already holds
RECURSIVE ParseLoopDedup(_, _)
ParseLoopDedup(lines, acc) ==
    IF lines = <<>> THEN [raised |-> FALSE, value |-> acc]
    ELSE LET o == TryCatch(LineBody(lines[1]))
         IN  IF o.kind = "throw" THEN [raised |-> TRUE, value |-> acc]
             ELSE IF o.kind = "push" /\ \A i \in DOMAIN acc : acc[i] # o.d
             THEN ParseLoopDedup(Tail(lines), Append(acc, o.d))
             ELSE ParseLoopDedup(Tail(lines), acc)

\* the for loop over the lines: the diagnostics pushed so far, and whether
\* an exception left the loop
RECURSIVE ParseLoop(_, _)
ParseLoop(lines, acc) ==
    IF lines = <<>> THEN [raised |-> FALSE, value |-> acc]
    ELSE LET o == TryCatch(LineBody(lines[1]))
         IN  IF o.kind = "throw" THEN [raised |-> TRUE, value |-> acc]
             ELSE IF o.kind = "push"
             THEN ParseLoop(Tail(lines), Append(acc, o.d))
             ELSE ParseLoop(Tail(lines), acc)

parseCargoDiagnostics(text) == ParseLoop(NonBlankLines(text), <<>>)

---------------------------------------------------------------------------
(* The cargo JSON texts the checks enumerate *)

\* the levels rustc writes into a record (CargoMessage.message.level is a
\* string; "failure-note" is rustc's level of its closing notes)
RecordLevels == {"error", "warning", "note", "help", "failure-note"}

\* how a span may carry its label (label?: string | null)
LabelChoices == {"absent", "null", "string"}

FileNames == <<"src/a.rs", "src/b.rs", "src/c.rs", "src/d.rs">>

\* the span at position i of a record: each position has a location of its
\* own, so that the span a diagnostic was located at can be told
SpanAt(i, lab) ==
    LET base == [file_name |-> JStr(FileNames[((i - 1) % 4) + 1]),
                 line_start |-> JNum(10 * i), line_end |-> JNum(10 * i),
                 column_start |-> JNum(i), column_end |-> JNum(i + 1)]
    IN  CASE lab = "absent" -> JObj(base)
          [] lab = "null" -> JObj([label |-> JNull] @@ base)
          [] OTHER -> JObj([label |-> JStr("here")] @@ base)

\* the span lists of up to MaxSpans spans
SpanLists ==
    UNION {{[i \in 1..n |-> SpanAt(i, labs[i])] : labs \in [1..n -> LabelChoices]}
           : n \in 0..MaxSpans}

\* one line of cargo's --message-format=json output
CompilerMessage(level, text, code, spans) ==
    Doc(JObj([reason |-> JStr("compiler-message"),
              message |-> JObj([code |-> code, level |-> JStr(level),
                                message |-> JStr(text), spans |-> JArr(spans),
                                rendered |-> JStr(text)])]))

ProseLine == S(<<"C", "o", "m", "p", "i", "l", "i", "n", "g">>)
BlankLine == S(<<" ", "\t">>)

\* lines that are no diagnostic record
OtherLines ==
    {ProseLine, BlankLine,
     <<Doc(JNull)>>, <<Doc(JNum(7))>>,
     <<Doc(JObj([reason |-> JStr("compiler-artifact")]))>>,
     <<Doc(JObj([reason |-> JStr("build-script-executed"),
                 message |-> JObj([level |-> JStr("error"),
                                   message |-> JStr("not a diagnostic"),
                                   spans |-> JArr(<<SpanAt(1, "null")>>)])]))>>,
     <<Doc(JObj([reason |-> JStr("compiler-message")]))>>,
     <<Doc(JObj([reason |-> JStr("compiler-message"), message |-> JNull]))>>,
     <<Doc(JObj([reason |-> JStr("compiler-message"),
                 message |-> JObj([level |-> JStr("error"),
                                   message |-> JStr("no spans field")])]))>>}

\* records of every level, each with one span
LevelLines ==
    {<<CompilerMessage(lv, "mismatched types", JObj([code |-> JStr("E0308")]),
                       <<SpanAt(1, "null")>>)>> : lv \in RecordLevels}

\* records of every span list
SpanLines ==
    {<<CompilerMessage("warning", "unused variable", JNull, sp)>> : sp \in SpanLists}

CargoLines == OtherLines \cup LevelLines \cup SpanLines

\* every line ends with a newline, as cargo writes them
RECURSIVE Unlines(_)
Unlines(ls) == IF ls = <<>> THEN <<>> ELSE ls[1] \o <<NL>> \o Unlines(Tail(ls))

CargoTexts == {Unlines(ls) : ls \in UNION {[1..n -> CargoLines] : n \in 0..MaxLines}}

---------------------------------------------------------------------------
(* The specification of parseCargoDiagnostics applied to a cargo text *)

NotRun == [raised |-> FALSE, value |-> <<>>]
NoTests == [tests |-> <<>>, summary |-> <<>>]

InitDiag ==
    /\ output \in CargoTexts
    /\ called = FALSE
    /\ diagnostics = NotRun
    /\ testResult = NoTests
    /\ HandlerIdle

CallParseCargoDiagnostics ==
    /\ ~called
    /\ called' = TRUE
    /\ diagnostics' = parseCargoDiagnostics(output)
    /\ UNCHANGED <<output, testResult, handlerVars>>

SpecDiag == InitDiag /\ [][CallParseCargoDiagnostics]_vars

---------------------------------------------------------------------------
(* Claims about parseCargoDiagnostics, checked under SpecDiag *)

\* the lines of the text, as the toolchain wrote them
EmittedLines == Split(output)

\* the line is one JSON document
IsJson(l) == LET t == Trim(l) IN Len(t) = 1 /\ "j" \in DOMAIN t[1]
JsonOf(l) == Trim(l)[1].j

\* the line is a record of reason "compiler-message"
IsCompilerMessage(l) ==
    /\ IsJson(l)
    /\ JsonOf(l).t = "object"
    /\ "reason" \in DOMAIN JsonOf(l).f
    /\ JsonOf(l).f.reason.t = "string"
    /\ JsonOf(l).f.reason.s = "compiler-message"

\* the record carries a message
HasMessage(l) ==
    /\ "message" \in DOMAIN JsonOf(l).f
    /\ JsonOf(l).f.message.t = "object"
MessageOf(l) == JsonOf(l).f.message.f

\* the message carries a list of spans
HasSpans(l) == "spans" \in DOMAIN MessageOf(l) /\ MessageOf(l).spans.t = "array"
SpansOf(l) == MessageOf(l).spans.a

\* a record that parses as JSON, has reason "compiler-message", carries a
\* message and has at least one span
ValidRecord(l) ==
    IsCompilerMessage(l) /\ HasMessage(l) /\ HasSpans(l) /\ Len(SpansOf(l)) >= 1
ValidLines == SelectSeq(EmittedLines, ValidRecord)

\* the span carries a non-null label
Labelled(s) == "label" \in DOMAIN s.f /\ s.f.label.t = "string"
LabelledAt(sp) == {i \in DOMAIN sp : Labelled(sp[i])}

\* diagnostic d has the file, line and column of span s
LocatedAt(d, s) ==
    /\ d.file = s.f.file_name
    /\ d.line = s.f.line_start
    /\ d.column = s.f.column_start

\* C3: the Diagnostic of a record with two spans of which exactly one carries
\* a non-null label (the other's label null or absent) is located at the
\* labelled span, whichever position it has; with no labelled span the
\* Diagnostic is located at the first span.
C3_LocatedAtLabelledSpan ==
    called =>
        \A k \in 1..Len(ValidLines) :
            /\ k <= Len(diagnostics.value)
            /\ LET sp == SpansOf(ValidLines[k])
                   d == diagnostics.value[k]
               IN  /\ (Len(sp) = 2 /\ Cardinality(LabelledAt(sp)) = 1)
                          => LocatedAt(d, sp[CHOOSE i \in LabelledAt(sp) : TRUE])
                   /\ (LabelledAt(sp) = {}) => LocatedAt(d, sp[1])

\* C4: a record whose span list is empty yields no Diagnostic, and every
\* Diagnostic has the file, line and column of a span present in the record
\* it came from.
C4_LocatedAtAPresentSpan ==
    called =>
        /\ Len(diagnostics.value) <= Len(ValidLines)
        /\ \A k \in 1..Len(diagnostics.value) :
               \E i \in DOMAIN SpansOf(ValidLines[k]) :
                   LocatedAt(diagnostics.value[k], SpansOf(ValidLines[k])[i])

\* a record with an empty span list came before a record with spans, and
\* the parse gave the one Diagnostic of the second
C4_Witness ==
    /\ called
    /\ Len(EmittedLines) >= 2
    /\ IsCompilerMessage(EmittedLines[1]) /\ HasMessage(EmittedLines[1])
    /\ HasSpans(EmittedLines[1]) /\ SpansOf(EmittedLines[1]) = <<>>
    /\ ValidRecord(EmittedLines[2])
    /\ Len(diagnostics.value) = 1

\* C5: the parse never raises, whatever the lines are, and a text without
\* a valid diagnostic record gives the empty sequence.
C5_NeverRaises ==
    called =>
        /\ diagnostics.raised = FALSE
        /\ (ValidLines = <<>>) => (diagnostics.value = <<>>)

\* a prose line and a record without a spans list were parsed to the empty
\* sequence
C5_Witness ==
    /\ called
    /\ Len(EmittedLines) >= 2
    /\ ~IsJson(EmittedLines[1]) /\ TrimNonEmpty(EmittedLines[1])
    /\ IsCompilerMessage(EmittedLines[2]) /\ HasMessage(EmittedLines[2])
    /\ ~HasSpans(EmittedLines[2])
    /\ diagnostics = [raised |-> FALSE, value |-> <<>>]

\* C6: the result holds, in line order and without deduplication, one
\* Diagnostic per valid record and nothing else.
C6_OneDiagnosticPerValidRecord ==
    called =>
        /\ Len(diagnostics.value) = Len(ValidLines)
        /\ \A k \in 1..Len(ValidLines) :
               /\ diagnostics.value[k].message = MessageOf(ValidLines[k]).message
               /\ diagnostics.value[k].level = MessageOf(ValidLines[k]).level

\* two identical valid records gave two Diagnostics
C6_Witness ==
    /\ called
    /\ Len(ValidLines) = 2
    /\ ValidLines[1] = ValidLines[2]
    /\ Len(diagnostics.value) = 2
    /\ diagnostics.value[1] = diagnostics.value[2]

\* the levels of a Diagnostic (Diagnostic["level"])
DiagnosticLevels == {"error", "warning", "note", "help"}

\* C7: every Diagnostic of the result has a level that is one of error,
\* warning, note, help.
C7_LevelIsOneOfFour ==
    called =>
        \A k \in DOMAIN diagnostics.value :
            /\ diagnostics.value[k].level.t = "string"
            /\ diagnostics.value[k].level.s \in DiagnosticLevels

---------------------------------------------------------------------------
(* Regular expressions of parseTestOutput, matched the way the code's       *)
(* backtracking matcher does                                               *)

\* what . matches: anything but a line terminator
IsDot(u) == ~("c" \in DOMAIN u /\ u.c \in {"\n", "\r"})
\* what \d matches
IsDigit(u) ==
    "c" \in DOMAIN u /\ u.c \in {"0", "1", "2", "3", "4", "5", "6", "7", "8", "9"}

\* the literal characters cs stand at position i of t
StartsWith(t, i, cs) ==
    /\ i >= 1
    /\ i + Len(cs) - 1 <= Len(t)
    /\ \A k \in 1..Len(cs) : IsChar(t[i + k - 1], cs[k])

\* the end of the longest run of white space that starts at i; 0 when t[i]
\* is no white space
RECURSIVE SpaceRunEnd(_, _)
SpaceRunEnd(t, i) ==
    IF i > Len(t) \/ ~IsSpace(t[i]) THEN 0
    ELSE LET e == SpaceRunEnd(t, i + 1) IN IF e = 0 THEN i ELSE e

\* the end of the longest run of digits that starts at i; 0 when t[i] is
\* no digit
RECURSIVE DigitRunEnd(_, _)
DigitRunEnd(t, i) ==
    IF i > Len(t) \/ ~IsDigit(t[i]) THEN 0
    ELSE LET e == DigitRunEnd(t, i + 1) IN IF e = 0 THEN i ELSE e

TokOk == <<"o", "k">>
TokFailed == <<"F", "A", "I", "L", "E", "D">>
TokIgnored == <<"i", "g", "n", "o", "r", "e", "d">>
NoToken == <<>>

\* (ok|FAILED|ignored) at position p: the alternative that matches
TokenAt(t, p) ==
    IF StartsWith(t, p, TokOk) THEN TokOk
    ELSE IF StartsWith(t, p, TokFailed) THEN TokFailed
    ELSE IF StartsWith(t, p, TokIgnored) THEN TokIgnored
    ELSE NoToken

\* \s+\.\.\.\s+(ok|FAILED|ignored) from position j + 1: the token matched,
\* NoToken when there is no match.  Each \s+ is followed by a character that
\* is no white space, so only its longest run can match.
TailMatch(t, j) ==
    LET e1 == SpaceRunEnd(t, j + 1)
        e2 == SpaceRunEnd(t, e1 + 4)
    IN  IF e1 = 0 \/ ~StartsWith(t, e1 + 1, <<".", ".", ".">>) \/ e2 = 0
        THEN NoToken
        ELSE TokenAt(t, e2 + 1)

\* the ends j of a capture (.+?) that starts at i and lets the rest match
NameEnds(t, i) ==
    {j \in i..Len(t) :
        /\ \A k \in i..j : IsDot(t[k])
        /\ TailMatch(t, j) # NoToken}

SetMax(A) == CHOOSE x \in A : \A y \in A : y <= x
SetMin(A) == CHOOSE x \in A : \A y \in A : x <= y

NoMatch == [matched |-> FALSE, name |-> <<>>, token |-> NoToken]
NoCounts ==
    [matched |-> FALSE, passed |-> <<>>, failed |-> <<>>, ignored |-> <<>>]

\* line.match(/^test\s+(.+?)\s+\.\.\.\s+(ok|FAILED|ignored)/): the first
\* \s+ is greedy (the longest run of white space is tried first), the
\* capture is lazy (the shortest identifier that lets the rest match)
MatchTestLine(t) ==
    IF ~StartsWith(t, 1, <<"t", "e", "s", "t">>) THEN NoMatch
    ELSE LET e0 == SpaceRunEnd(t, 5)
             starts == {i \in 6..(e0 + 1) : NameEnds(t, i) # {}}
         IN  IF e0 = 0 \/ starts = {} THEN NoMatch
             ELSE LET i == SetMax(starts)
                      j == SetMin(NameEnds(t, i))
                  IN  [matched |-> TRUE, name |-> SubSeq(t, i, j),
                       token |-> TailMatch(t, j)]

\* the rest of the summary pattern after "\. " at position q:
\* (\d+) passed; (\d+) failed; (\d+) ignored
CountsAt(t, q) ==
    LET d1 == DigitRunEnd(t, q)
        d2 == DigitRunEnd(t, d1 + 10)
        d3 == DigitRunEnd(t, d2 + 10)
    IN  IF /\ d1 # 0
           /\ StartsWith(t, d1 + 1, <<" ", "p", "a", "s", "s", "e", "d", ";", " ">>)
           /\ d2 # 0
           /\ StartsWith(t, d2 + 1, <<" ", "f", "a", "i", "l", "e", "d", ";", " ">>)
           /\ d3 # 0
           /\ StartsWith(t, d3 + 1, <<" ", "i", "g", "n", "o", "r", "e", "d">>)
        THEN [matched |-> TRUE, passed |-> SubSeq(t, q, d1),
              failed |-> SubSeq(t, d1 + 10, d2),
              ignored |-> SubSeq(t, d2 + 10, d3)]
        ELSE NoCounts

\* the ends e of the lazy capture (.*?) that starts at i (e = i - 1 for the
\* empty capture) and is followed by "\. " and the counts
StatusEnds(t, i) ==
    {e \in (i - 1)..Len(t) :
        /\ \A k \in i..e : IsDot(t[k])
        /\ StartsWith(t, e + 1, <<".", " ">>)
        /\ CountsAt(t, e + 3).matched}

\* the positions at which the whole summary pattern matches
SummaryStarts(t) ==
    {s \in 1..Len(t) :
        /\ StartsWith(t, s, <<"t", "e", "s", "t", " ", "r", "e", "s", "u", "l", "t", ":", " ">>)
        /\ StatusEnds(t, s + 13) # {}}

\* a search that takes the last match of the text instead of the first
SummaryMatchLast(t) ==
    IF SummaryStarts(t) = {} THEN NoCounts
    ELSE LET s == SetMax(SummaryStarts(t))
         IN  CountsAt(t, SetMin(StatusEnds(t, s + 13)) + 3)

\* output.match(/test result: (.*?)\. (\d+) passed; (\d+) failed; (\d+) ignored/):
\* the leftmost match of the text, its first capture the shortest
SummaryMatch(t) ==
    IF SummaryStarts(t) = {} THEN NoCounts
    ELSE LET s == SetMin(SummaryStarts(t))
         IN  CountsAt(t, SetMin(StatusEnds(t, s + 13)) + 3)

---------------------------------------------------------------------------
(* parseTestOutput *)

UpperCase == <<"A", "B", "C", "D", "E", "F", "G", "H", "I", "J", "K", "L", "M", "N", "O", "P", "Q", "R", "S", "T", "U", "V", "W", "X", "Y", "Z">>
LowerCase == <<"a", "b", "c", "d", "e", "f", "g", "h", "i", "j", "k", "l", "m", "n", "o", "p", "q", "r", "s", "t", "u", "v", "w", "x", "y", "z">>

\* String.prototype.toLowerCase, character by character
LowerUnit(u) ==
    IF "c" \in DOMAIN u /\ \E k \in DOMAIN UpperCase : UpperCase[k] = u.c
    THEN Ch(LowerCase[CHOOSE k \in DOMAIN UpperCase : UpperCase[k] = u.c])
    ELSE u
\* a conversion that leaves the letters as they are
KeepCase(t) == [i \in DOMAIN t |-> t[i]]

\* match[2].toLowerCase()
ToLowerCase(t) == [i \in DOMAIN t |-> LowerUnit(t[i])]

DecimalDigits == <<"0", "1", "2", "3", "4", "5", "6", "7", "8", "9">>

\* the decimal text of a number, as a template string writes it
RECURSIVE Dec(_)
Dec(n) ==
    IF n < 10 THEN <<Ch(DecimalDigits[n + 1])>>
    ELSE Dec(n \div 10) \o <<Ch(DecimalDigits[(n % 10) + 1])>>

\* the for loop over the lines: one TestResult per line the pattern matches
RECURSIVE TestLoop(_, _)
TestLoop(lines, acc) ==
    IF lines = <<>> THEN acc
    ELSE LET match == MatchTestLine(lines[1])
         IN  IF match.matched
             THEN TestLoop(Tail(lines),
                           Append(acc, [name |-> match.name,
                                        status |-> ToLowerCase(S(match.token))]))
             ELSE TestLoop(Tail(lines), acc)

\* `${summaryMatch[2]} passed, ${summaryMatch[3]} failed, ${summaryMatch[4]} ignored`
SummaryFromMatch(sm) ==
    sm.passed \o S(<<" ", "p", "a", "s", "s", "e", "d", ",", " ">>) \o sm.failed \o S(<<" ", "f", "a", "i", "l", "e", "d", ",", " ">>)
        \o sm.ignored \o S(<<" ", "i", "g", "n", "o", "r", "e", "d">>)

\* a degraded summary that counts the passed outcomes only
SummaryFromPassedCount(tests) ==
    Dec(Len(SelectSeq(tests, LAMBDA r : r.status = S(TokOk)))) \o S(<<" ", "t", "e", "s", "t", "s", " ", "f", "o", "u", "n", "d">>)

\* `${tests.length} tests found`
SummaryFromCount(tests) == Dec(Len(tests)) \o S(<<" ", "t", "e", "s", "t", "s", " ", "f", "o", "u", "n", "d">>)

parseTestOutput(text) ==
    LET tests == TestLoop(Split(text), <<>>)
        summaryMatch == SummaryMatch(text)
    IN  [tests |-> tests,
         summary |-> IF summaryMatch.matched
                     THEN SummaryFromMatch(summaryMatch)
                     ELSE SummaryFromCount(tests)]

---------------------------------------------------------------------------
(* formatDiagnostics and formatTestResults.  The literal parts of a        *)
(* template string are fragments; an emoji is written as a fragment that   *)
(* names it.                                                               *)

\* `${v}`: the text of a value in a template string
ToText(v) ==
    CASE v.t = "string" -> IF v.s = "" THEN <<>> ELSE <<Lit(v.s)>>
      [] v.t = "number" -> Dec(v.n)
      [] v.t = "boolean" -> IF v.b THEN <<Lit("true")>> ELSE <<Lit("false")>>
      [] v.t = "null" -> <<Lit("null")>>
      [] OTHER -> <<Lit("undefined")>>

\* an emoji of the source, by name
Emoji(name) == Lit(name)

\* a sentence for the empty case that differs in its last character
NoIssuesFoundUnpunctuated == <<Lit("No issues found")>>

\* return "No issues found."
NoIssuesFound == <<Lit("No issues found.")>>

\* the lines written for one diagnostic
DiagnosticEntry(d) ==
    LET icon == IF IsString(d.level, "error") THEN Emoji("cross mark")
                ELSE IF IsString(d.level, "warning") THEN Emoji("warning sign")
                ELSE Emoji("information")
        code == IF Truthy(d.code)
                THEN <<Lit("[")>> \o ToText(d.code) \o <<Lit("] ")>>
                ELSE <<>>
    IN  <<icon, Lit(" ")>> \o code \o ToText(d.message) \o <<NL>>
            \o <<Lit("   (arrow) ")>> \o ToText(d.file) \o <<Lit(":")>>
            \o ToText(d.line) \o <<Lit(":")>> \o ToText(d.column) \o <<NL>>
            \o (IF Truthy(d.suggestion)
                THEN <<Lit("   "), Emoji("light bulb"), Lit(" Suggestion: ")>>
                         \o ToText(d.suggestion) \o <<NL>>
                ELSE <<>>)
            \o <<NL>>

\* a loop that renders errors and warnings only
RECURSIVE DiagnosticEntriesCountedOnly(_)
DiagnosticEntriesCountedOnly(ds) ==
    IF ds = <<>> THEN <<>>
    ELSE (IF ds[1].level.s \in {"error", "warning"} THEN DiagnosticEntry(ds[1])
          ELSE <<>>)
            \o DiagnosticEntriesCountedOnly(Tail(ds))

RECURSIVE DiagnosticEntries(_)
DiagnosticEntries(ds) ==
    IF ds = <<>> THEN <<>>
    ELSE DiagnosticEntry(ds[1]) \o DiagnosticEntries(Tail(ds))

\* a formatter whose second count takes in every diagnostic that is no error
formatDiagnosticsCountingRest(ds) ==
    IF Len(ds) = 0 THEN NoIssuesFound
    ELSE LET errors == SelectSeq(ds, LAMBDA d : IsString(d.level, "error"))
         IN  <<Lit("Found ")>> \o Dec(Len(errors)) \o <<Lit(" error(s) and ")>>
                 \o Dec(Len(ds) - Len(errors)) \o <<Lit(" warning(s):"), NL, NL>>
                 \o DiagnosticEntries(ds)

formatDiagnostics(ds) ==
    IF Len(ds) = 0 THEN NoIssuesFound
    ELSE LET errors == SelectSeq(ds, LAMBDA d : IsString(d.level, "error"))
             warnings == SelectSeq(ds, LAMBDA d : IsString(d.level, "warning"))
         IN  <<Lit("Found ")>> \o Dec(Len(errors)) \o <<Lit(" error(s) and ")>>
                 \o Dec(Len(warnings)) \o <<Lit(" warning(s):"), NL, NL>>
                 \o DiagnosticEntries(ds)

\* a loop that lists the failed names last to first
RECURSIVE FailedNamesReversed(_)
FailedNamesReversed(failed) ==
    IF failed = <<>> THEN <<>>
    ELSE FailedNamesReversed(Tail(failed)) \o <<Lit("   - ")>> \o failed[1].name \o <<NL>>

RECURSIVE FailedNames(_)
FailedNames(failed) ==
    IF failed = <<>> THEN <<>>
    ELSE <<Lit("   - ")>> \o failed[1].name \o <<NL>> \o FailedNames(Tail(failed))

\* a formatter that appends the error section on every non-zero exit code
formatTestResultsOnAnyFailure(tests, summary, exitCode, stderr) ==
    LET failed == SelectSeq(tests, LAMBDA r : r.status = S(<<"f", "a", "i", "l", "e", "d">>))
        passed == SelectSeq(tests, LAMBDA r : r.status = S(<<"o", "k">>))
        ignored == SelectSeq(tests, LAMBDA r : r.status = S(<<"i", "g", "n", "o", "r", "e", "d">>))
    IN  <<Lit("Test Results: ")>> \o summary \o <<NL, NL>>
            \o (IF Len(failed) > 0
                THEN <<Emoji("cross mark"), Lit(" Failed tests:"), NL>>
                         \o FailedNames(failed) \o <<NL>>
                ELSE <<>>)
            \o (IF Len(passed) > 0
                THEN <<Emoji("check mark"), Lit(" Passed: ")>> \o Dec(Len(passed))
                         \o <<Lit(" tests"), NL>>
                ELSE <<>>)
            \o (IF Len(ignored) > 0
                THEN <<Emoji("next track"), Lit(" Ignored: ")>> \o Dec(Len(ignored))
                         \o <<Lit(" tests"), NL>>
                ELSE <<>>)
            \o (IF exitCode # 0
                THEN <<NL, Lit("Compilation or other error:"), NL>> \o stderr
                ELSE <<>>)

formatTestResults(tests, summary, exitCode, stderr) ==
    LET failed == SelectSeq(tests, LAMBDA r : r.status = S(<<"f", "a", "i", "l", "e", "d">>))
        passed == SelectSeq(tests, LAMBDA r : r.status = S(<<"o", "k">>))
        ignored == SelectSeq(tests, LAMBDA r : r.status = S(<<"i", "g", "n", "o", "r", "e", "d">>))
    IN  <<Lit("Test Results: ")>> \o summary \o <<NL, NL>>
            \o (IF Len(failed) > 0
                THEN <<Emoji("cross mark"), Lit(" Failed tests:"), NL>>
                         \o FailedNames(failed) \o <<NL>>
                ELSE <<>>)
            \o (IF Len(passed) > 0
                THEN <<Emoji("check mark"), Lit(" Passed: ")>> \o Dec(Len(passed))
                         \o <<Lit(" tests"), NL>>
                ELSE <<>>)
            \o (IF Len(ignored) > 0
                THEN <<Emoji("next track"), Lit(" Ignored: ")>> \o Dec(Len(ignored))
                         \o <<Lit(" tests"), NL>>
                ELSE <<>>)
            \o (IF exitCode # 0 /\ Len(failed) = 0
                THEN <<NL, Lit("Compilation or other error:"), NL>> \o stderr
                ELSE <<>>)

---------------------------------------------------------------------------
(* The cargo test texts the checks enumerate *)

\* the most lines of a test text the checks enumerate
MaxTestLines == 2

\* test identifiers: a module path, and a doc-test with embedded spaces and
\* a parenthetical line reference
TestNames == {S(<<"a", ":", ":", "b">>), S(<<"l", ".", "r", "s", " ", "-", " ", "X", " ", "(", "l", "i", "n", "e", " ", "1", ")">>)}

OutcomeTokens == {TokOk, TokFailed, TokIgnored}

\* "test <identifier> ... <token>"
ResultLine(id, tok) == S(<<"t", "e", "s", "t", " ">>) \o id \o S(<<" ", ".", ".", ".", " ">>) \o S(tok)

\* the counts of a summary line, as the digits cargo writes
CountTriples ==
    {[status |-> S(<<"F", "A", "I", "L", "E", "D">>), passed |-> S(<<"2">>), failed |-> S(<<"1">>),
      ignored |-> S(<<"0">>)],
     [status |-> S(<<"o", "k">>), passed |-> S(<<"1", "0">>), failed |-> S(<<"0">>),
      ignored |-> S(<<"3">>)]}

\* "<p> passed; <f> failed; <i> ignored"
CountsText(tr) ==
    tr.passed \o S(<<" ", "p", "a", "s", "s", "e", "d", ";", " ">>) \o tr.failed \o S(<<" ", "f", "a", "i", "l", "e", "d", ";", " ">>)
        \o tr.ignored \o S(<<" ", "i", "g", "n", "o", "r", "e", "d">>)

\* "test result: <status>. <p> passed; <f> failed; <i> ignored"
SummaryLine(tr) == S(<<"t", "e", "s", "t", " ", "r", "e", "s", "u", "l", "t", ":", " ">>) \o tr.status \o S(<<".", " ">>) \o CountsText(tr)

\* output of the test program that begins like a result line
PrintedLikeResult == S(<<"t", "e", "s", "t", " ", "d", " ", ".", ".", ".", " ", "o", "k", "a", "y">>)
\* a result line whose token is in another letter case
LowerCaseFailedLine == S(<<"t", "e", "s", "t", " ", "e", " ", ".", ".", ".", " ", "f", "a", "i", "l", "e", "d">>)

TestLines ==
    {ResultLine(id, tok) : id \in TestNames, tok \in OutcomeTokens}
        \cup {SummaryLine(tr) : tr \in CountTriples}
        \cup {CountsText(CHOOSE tr \in CountTriples : tr.passed = S(<<"2">>))}
        \cup {S(<<"r", "u", "n", "n", "i", "n", "g", " ", "2", " ", "t", "e", "s", "t", "s">>),
              S(<<"h", "e", "l", "l", "o">>),
              PrintedLikeResult, LowerCaseFailedLine, <<>>}

TestTexts == {Unlines(ls) : ls \in UNION {[1..n -> TestLines] : n \in 0..MaxTestLines}}

---------------------------------------------------------------------------
(* The specification of parseTestOutput applied to a test text *)

InitTest ==
    /\ output \in TestTexts
    /\ called = FALSE
    /\ diagnostics = NotRun
    /\ testResult = NoTests
    /\ HandlerIdle

CallParseTestOutput ==
    /\ ~called
    /\ called' = TRUE
    /\ testResult' = parseTestOutput(output)
    /\ UNCHANGED <<output, diagnostics, handlerVars>>

SpecTest == InitTest /\ [][CallParseTestOutput]_vars

---------------------------------------------------------------------------
(* Claims about parseTestOutput, checked under SpecTest *)

\* x stands in l at position s
OccursAt(l, s, x) == s + Len(x) - 1 <= Len(l) /\ SubSeq(l, s, s + Len(x) - 1) = x
Contains(l, x) == \E s \in 1..Len(l) : OccursAt(l, s, x)

\* the line is "test <identifier> ... <tok>": the toolchain's result line
IsResultLineOf(l, tok) ==
    /\ Len(l) >= 5 + 1 + 5 + Len(tok)
    /\ OccursAt(l, 1, S(<<"t", "e", "s", "t", " ">>))
    /\ OccursAt(l, Len(l) - Len(tok) - 4, S(<<" ", ".", ".", ".", " ">>) \o S(tok))
IsResultLine(l) == \E tok \in OutcomeTokens : IsResultLineOf(l, tok)
TokenOf(l) == CHOOSE tok \in OutcomeTokens : IsResultLineOf(l, tok)
IdentifierOf(l) == SubSeq(l, 6, Len(l) - Len(TokenOf(l)) - 5)

\* the status of a token
StatusOf(tok) ==
    CASE tok = TokOk -> S(<<"o", "k">>)
      [] tok = TokFailed -> S(<<"f", "a", "i", "l", "e", "d">>)
      [] tok = TokIgnored -> S(<<"i", "g", "n", "o", "r", "e", "d">>)

ResultLines == SelectSeq(EmittedLines, IsResultLine)

\* C8: the tests list holds, in text order, exactly one outcome per result
\* line "test <identifier> ... <ok|FAILED|ignored>", named by the whole
\* identifier; every other line adds no outcome.
C8_OneOutcomePerResultLine ==
    called =>
        testResult.tests =
            [k \in 1..Len(ResultLines) |->
                [name |-> IdentifierOf(ResultLines[k]),
                 status |-> StatusOf(TokenOf(ResultLines[k]))]]

\* the line carries the counts "<p> passed; <f> failed; <i> ignored" of tr
\* (not as the tail of longer digits)
CarriesCounts(l, tr) ==
    \E s \in 1..Len(l) :
        /\ OccursAt(l, s, CountsText(tr))
        /\ s > 1 => ~IsDigit(l[s - 1])
LinesWithCounts ==
    {k \in DOMAIN EmittedLines : \E tr \in CountTriples : CarriesCounts(EmittedLines[k], tr)}

\* "<p> passed, <f> failed, <i> ignored"
ExpectedSummary(tr) ==
    tr.passed \o S(<<" ", "p", "a", "s", "s", "e", "d", ",", " ">>) \o tr.failed \o S(<<" ", "f", "a", "i", "l", "e", "d", ",", " ">>)
        \o tr.ignored \o S(<<" ", "i", "g", "n", "o", "r", "e", "d">>)

\* C9 as stated: a text that contains the summary line "<p> passed; <f>
\* failed; <i> ignored" has the summary "<p> passed, <f> failed, <i> ignored".
C9_SummaryFromCountsLine ==
    called =>
        \A tr \in CountTriples :
            (/\ Cardinality(LinesWithCounts) = 1
             /\ \E k \in LinesWithCounts : CarriesCounts(EmittedLines[k], tr))
                => testResult.summary = ExpectedSummary(tr)

\* the line is "test result: <status>. <p> passed; <f> failed; <i> ignored"
IsSummaryLineOf(l, tr) ==
    \E st \in {c.status : c \in CountTriples} :
        Contains(l, S(<<"t", "e", "s", "t", " ", "r", "e", "s", "u", "l", "t", ":", " ">>) \o st \o S(<<".", " ">>) \o CountsText(tr))
SummaryLineIndexes ==
    {k \in DOMAIN EmittedLines : \E tr \in CountTriples : IsSummaryLineOf(EmittedLines[k], tr)}

\* C9, amended: a text that contains a line "test result: <status>. <p>
\* passed; <f> failed; <i> ignored" has the summary "<p> passed, <f> failed,
\* <i> ignored" of the first such line, however many outcomes were recognized.
C9_SummaryFromTestResultLine ==
    called =>
        \A tr \in CountTriples :
            (/\ SummaryLineIndexes # {}
             /\ IsSummaryLineOf(EmittedLines[SetMin(SummaryLineIndexes)], tr))
                => testResult.summary = ExpectedSummary(tr)

\* one outcome was recognized and the summary line counts three
C9_Witness ==
    /\ called
    /\ Len(EmittedLines) >= 2
    /\ IsResultLine(EmittedLines[1])
    /\ \E tr \in CountTriples :
           /\ tr.passed = S(<<"2">>)
           /\ EmittedLines[2] = SummaryLine(tr)
           /\ testResult.summary = ExpectedSummary(tr)
    /\ Len(testResult.tests) = 1

\* "<n> tests found" for the small n of the texts
TestsFound(n) == <<Ch(DecimalDigits[n + 1])>> \o S(<<" ", "t", "e", "s", "t", "s", " ", "f", "o", "u", "n", "d">>)

\* C10: without a summary line the summary is "<n> tests found", n the
\* number of recognized outcome lines; the empty text gives "0 tests found".
C10_TestsFoundWithoutSummaryLine ==
    called =>
        /\ (SummaryLineIndexes = {})
               => testResult.summary = TestsFound(Len(testResult.tests))
        /\ (output = <<>>) => testResult.summary = TestsFound(0)

\* two outcomes, one of them failed, were recognized without a summary line
C10_Witness ==
    /\ called
    /\ SummaryLineIndexes = {}
    /\ Len(testResult.tests) = 2
    /\ \E k \in 1..2 : testResult.tests[k].status = S(<<"f", "a", "i", "l", "e", "d">>)
    /\ testResult.summary = TestsFound(2)

---------------------------------------------------------------------------
(* The tool-call handler: the command line and the response of each tool *)

SingleCommandTools ==
    {"bacon_check", "bacon_clippy", "bacon_clippy_strict", "bacon_test",
     "bacon_build", "bacon_doc", "bacon_fmt_check", "bacon_fmt", "bacon_audit",
     "bacon_deny", "bacon_outdated", "bacon_udeps", "bacon_machete"}
KnownTools == SingleCommandTools \cup {"bacon_quality", "rust_project_info"}

\* the directories of the file system that hold a Cargo.toml
ProjectDirs == {"/proj"}

\* a project check that accepts every directory
AcceptEveryDirectory(path) == path = path

\* validateRustProject(path): existsSync(join(path, "Cargo.toml"))
validateRustProject(path) == path \in ProjectDirs

\* const { name = dflt } = args
OptionOr(args, name, dflt) ==
    IF Prop(args, name).t = "undefined" THEN dflt ELSE Prop(args, name)

\* if (flag) cargoArgs.push(...)
When(flag, pushed) == IF Truthy(flag) THEN pushed ELSE <<>>

\* for (const lint of list) lintFlags.push(flag, lint), under
\* if (list && list.length > 0)
RECURSIVE LintPairs(_, _)
LintPairs(flag, lints) ==
    IF lints = <<>> THEN <<>>
    ELSE <<flag, lints[1].s>> \o LintPairs(flag, Tail(lints))
LintList(flag, list) ==
    IF list.t = "array" THEN LintPairs(flag, list.a) ELSE <<>>

\* lint flags that put the custom lists before the lint groups
ClippyLintFlagsListsFirst(args) ==
    LintList("-A", Prop(args, "allow"))
        \o LintList("-W", Prop(args, "warn"))
        \o LintList("-D", Prop(args, "deny"))
        \o When(Prop(args, "pedantic"), <<"-W", "clippy::pedantic">>)
        \o When(Prop(args, "nursery"), <<"-W", "clippy::nursery">>)
        \o When(Prop(args, "cargo"), <<"-W", "clippy::cargo">>)
        \o When(Prop(args, "restriction"), <<"-W", "clippy::restriction">>)
        \o When(Prop(args, "deny_warnings"), <<"-D", "warnings">>)

\* the lint flags of bacon_clippy
ClippyLintFlags(args) ==
    When(Prop(args, "pedantic"), <<"-W", "clippy::pedantic">>)
        \o When(Prop(args, "nursery"), <<"-W", "clippy::nursery">>)
        \o When(Prop(args, "cargo"), <<"-W", "clippy::cargo">>)
        \o When(Prop(args, "restriction"), <<"-W", "clippy::restriction">>)
        \o When(Prop(args, "deny_warnings"), <<"-D", "warnings">>)
        \o LintList("-A", Prop(args, "allow"))
        \o LintList("-W", Prop(args, "warn"))
        \o LintList("-D", Prop(args, "deny"))

\* String(depth) of bacon_outdated, for the depths of the requests modelled
DepthString(depth) ==
    IF depth.t = "number" /\ depth.n \in 0..9 THEN DecimalDigits[depth.n + 1]
    ELSE IF depth.t = "string" THEN depth.s
    ELSE "1"

\* the argument list of the one cargo command of a single-command tool
CargoArgs(name, args) ==
    CASE name = "bacon_check" ->
            <<"check", "--message-format=json">>
                \o When(Prop(args, "all_targets"), <<"--all-targets">>)
                \o When(Prop(args, "all_features"), <<"--all-features">>)
      [] name = "bacon_clippy" ->
            <<"clippy", "--message-format=json">>
                \o When(OptionOr(args, "all_targets", JBool(TRUE)), <<"--all-targets">>)
                \o When(Prop(args, "fix"), <<"--fix", "--allow-dirty", "--allow-staged">>)
                \o (IF Len(ClippyLintFlags(args)) > 0
                    THEN <<"--">> \o ClippyLintFlags(args) ELSE <<>>)
      [] name = "bacon_clippy_strict" ->
            <<"clippy", "--message-format=json">>
                \o When(OptionOr(args, "all_targets", JBool(TRUE)), <<"--all-targets">>)
                \o When(Prop(args, "fix"), <<"--fix", "--allow-dirty", "--allow-staged">>)
                \o <<"--", "-W", "clippy::pedantic", "-W", "clippy::nursery",
                     "-W", "clippy::cargo", "-D", "warnings">>
      [] name = "bacon_test" ->
            <<"test">>
                \o (IF Truthy(Prop(args, "filter")) THEN <<Prop(args, "filter").s>> ELSE <<>>)
                \o When(Prop(args, "no_capture"), <<"--", "--nocapture">>)
      [] name = "bacon_build" ->
            <<"build", "--message-format=json">>
                \o When(Prop(args, "release"), <<"--release">>)
                \o When(Prop(args, "all_targets"), <<"--all-targets">>)
      [] name = "bacon_doc" ->
            <<"doc", "--message-format=json">>
                \o When(OptionOr(args, "no_deps", JBool(TRUE)), <<"--no-deps">>)
                \o When(Prop(args, "document_private"), <<"--document-private-items">>)
                \o When(Prop(args, "open"), <<"--open">>)
      [] name = "bacon_fmt_check" -> <<"fmt", "--check">>
      [] name = "bacon_fmt" -> <<"fmt">>
      [] name = "bacon_audit" -> <<"audit">>
      [] name = "bacon_deny" ->
            <<"deny", "check">>
                \o (IF IsString(OptionOr(args, "check", JStr("all")), "all") THEN <<>>
                    ELSE <<OptionOr(args, "check", JStr("all")).s>>)
      [] name = "bacon_outdated" ->
            <<"outdated", "--depth", DepthString(OptionOr(args, "depth", JNum(1)))>>
      [] name = "bacon_udeps" ->
            <<"+nightly", "udeps">>
                \o When(OptionOr(args, "all_targets", JBool(TRUE)), <<"--all-targets">>)
      [] name = "bacon_machete" ->
            <<"machete">> \o When(Prop(args, "fix"), <<"--fix">>)

\* the command lines of a quality report that checks the formatting first
QualityArgsFmtFirst ==
    <<<<"fmt", "--check">>,
      <<"clippy", "--message-format=json", "--all-targets", "--",
        "-W", "clippy::pedantic", "-W", "clippy::nursery">>,
      <<"doc", "--message-format=json", "--no-deps">>>>

\* the command lines of bacon_quality, in the order they are run
QualityArgs ==
    <<<<"clippy", "--message-format=json", "--all-targets", "--",
        "-W", "clippy::pedantic", "-W", "clippy::nursery">>,
      <<"fmt", "--check">>,
      <<"doc", "--message-format=json", "--no-deps">>>>

\* the command line of rust_project_info
MetadataArgs == <<"metadata", "--no-deps", "--format-version=1">>

DiffIn == <<"D", "i", "f", "f", " ", "i", "n">>
UpToDate == <<"A", "l", "l", " ", "d", "e", "p", "e", "n", "d", "e", "n", "c", "i", "e", "s", " ", "a", "r", "e", " ", "u", "p", " ", "t", "o", " ", "d", "a", "t", "e">>
Unused == <<"u", "n", "u", "s", "e", "d">>

\* result.stdout.split("\n").filter((l) => l.startsWith("Diff in"))
Unformatted(stdout) == SelectSeq(Split(stdout), LAMBDA l : StartsWith(l, 1, DiffIn))

\* text.includes(cs)
Includes(text, cs) == \E i \in 1..Len(text) : StartsWith(text, i, cs)

\* values.join(", ")
RECURSIVE JoinValues(_)
JoinValues(vs) ==
    IF vs = <<>> THEN <<>>
    ELSE IF Len(vs) = 1 THEN ToText(vs[1])
    ELSE ToText(vs[1]) \o <<Lit(", ")>> \o JoinValues(Tail(vs))

\* the enabled lint groups of bacon_clippy, joined by ", "
EnabledLints(args) ==
    SelectSeq(<<JStr("pedantic"), JStr("nursery"), JStr("cargo"), JStr("restriction")>>,
              LAMBDA g : Truthy(Prop(args, g.s)))

Reply(text) == [text |-> text, isError |-> FALSE]
ErrorReply(text) == [text |-> text, isError |-> TRUE]

\* what a single-command tool returns for the CommandResult of its command
ToolReply(name, args, result) ==
    CASE name = "bacon_check" ->
            Reply(formatDiagnostics(parseCargoDiagnostics(result.stdout).value))
      [] name = "bacon_clippy" ->
            Reply((IF Len(EnabledLints(args)) > 0
                   THEN <<Emoji("magnifying glass"), Lit(" Clippy with: ")>>
                            \o JoinValues(EnabledLints(args)) \o <<NL, NL>>
                   ELSE <<>>)
                  \o formatDiagnostics(parseCargoDiagnostics(result.stdout).value))
      [] name = "bacon_clippy_strict" ->
            Reply(<<Emoji("lock"),
                    Lit(" Strict Clippy (pedantic + nursery + cargo, warnings denied)"),
                    NL, NL>>
                  \o formatDiagnostics(parseCargoDiagnostics(result.stdout).value))
      [] name = "bacon_test" ->
            LET parsed == parseTestOutput(result.stderr \o result.stdout)
            IN  Reply(formatTestResults(parsed.tests, parsed.summary,
                                        result.exitCode, result.stderr))
      [] name = "bacon_build" ->
            Reply((IF result.exitCode = 0
                   THEN <<Emoji("check mark"), Lit(" Build successful!"), NL, NL>>
                   ELSE <<Emoji("cross mark"), Lit(" Build failed!"), NL, NL>>)
                  \o formatDiagnostics(parseCargoDiagnostics(result.stdout).value))
      [] name = "bacon_doc" ->
            Reply((IF result.exitCode = 0
                   THEN <<Emoji("check mark"), Lit(" Documentation generated successfully!"), NL, NL>>
                   ELSE <<Emoji("cross mark"), Lit(" Documentation generation failed!"), NL, NL>>)
                  \o formatDiagnostics(parseCargoDiagnostics(result.stdout).value))
      [] name = "bacon_fmt_check" ->
            IF result.exitCode = 0
            THEN Reply(<<Emoji("check mark"), Lit(" All files are properly formatted!")>>)
            ELSE Reply(<<Emoji("warning sign"), Lit(" ")>>
                       \o Dec(Len(Unformatted(result.stdout)))
                       \o <<Lit(" file(s) need formatting:"), NL>>
                       \o Join(Unformatted(result.stdout))
                       \o <<NL, NL, Lit("Run bacon_fmt to fix.")>>)
      [] name = "bacon_fmt" ->
            IF result.exitCode = 0
            THEN Reply(<<Emoji("check mark"), Lit(" Code formatted successfully!")>>)
            ELSE Reply(<<Emoji("cross mark"), Lit(" Formatting failed:"), NL>> \o result.stderr)
      [] name = "bacon_audit" ->
            IF result.exitCode = 0
            THEN Reply(<<Emoji("check mark"), Lit(" No known vulnerabilities found in dependencies!")>>)
            ELSE Reply(<<Emoji("warning sign"), Lit(" Security audit results:"), NL, NL>>
                       \o result.stdout \o <<NL>> \o result.stderr)
      [] name = "bacon_deny" ->
            LET check == ToText(OptionOr(args, "check", JStr("all")))
            IN  IF result.exitCode = 0
                THEN Reply(<<Emoji("check mark"), Lit(" cargo deny (")>> \o check
                           \o <<Lit("): All checks passed!")>>)
                ELSE Reply(<<Emoji("warning sign"), Lit(" cargo deny (")>> \o check
                           \o <<Lit(") found issues:"), NL, NL>>
                           \o result.stdout \o <<NL>> \o result.stderr)
      [] name = "bacon_outdated" ->
            IF Includes(result.stdout, UpToDate)
            THEN Reply(<<Emoji("check mark"), Lit(" All dependencies are up to date!")>>)
            ELSE Reply(<<Emoji("package"), Lit(" Outdated dependencies:"), NL, NL>>
                       \o result.stdout
                       \o (IF result.stderr # <<>> THEN <<NL>> \o result.stderr ELSE <<>>))
      [] name = "bacon_udeps" ->
            IF result.exitCode = 0 /\ ~Includes(result.stdout, Unused)
            THEN Reply(<<Emoji("check mark"), Lit(" No unused dependencies found!")>>)
            ELSE Reply(<<Emoji("package"), Lit(" Unused dependencies:"), NL, NL>>
                       \o result.stdout \o <<NL>> \o result.stderr)
      [] name = "bacon_machete" ->
            IF result.exitCode = 0
            THEN Reply(IF Truthy(Prop(args, "fix"))
                       THEN <<Emoji("check mark"), Lit(" Unused dependencies removed!")>>
                       ELSE <<Emoji("check mark"), Lit(" No unused dependencies found!")>>)
            ELSE Reply(<<Emoji("package"), Lit(" Unused dependencies found:"), NL, NL>>
                       \o result.stdout \o <<NL>> \o result.stderr
                       \o <<NL, NL, Lit("Run with fix=true to remove them.")>>)

---------------------------------------------------------------------------
(* rust_project_info *)

\* what the two regular expressions of getProjectInfo captured in the
\* Cargo.toml of a project: the quoted name and version, undefined where the
\* expression matched nothing; a file that cannot be read makes readFile throw
CargoTomls ==
    {[readable |-> FALSE, name |-> Undefined, version |-> Undefined],
     [readable |-> TRUE, name |-> JStr("demo"), version |-> JStr("0.1.0")],
     [readable |-> TRUE, name |-> Undefined, version |-> Undefined]}

getProjectInfo(toml) ==
    IF ~toml.readable THEN JNull
    ELSE JObj([name |-> Coalesce(toml.name, JStr("unknown")),
               version |-> Coalesce(toml.version, JStr("0.0.0"))])

\* the loop over pkg.targets: the text appended to output, and whether a
\* target threw (a nullish target, or a kind that has no join)
RECURSIVE TargetLines(_)
TargetLines(targets) ==
    IF targets = <<>> THEN [threw |-> FALSE, text |-> <<>>]
    ELSE IF IsNullish(targets[1]) \/ Prop(targets[1], "kind").t # "array"
    THEN [threw |-> TRUE, text |-> <<>>]
    ELSE LET line == <<Lit("   - ")>> \o ToText(Prop(targets[1], "name"))
                        \o <<Lit(" (")>> \o JoinValues(Prop(targets[1], "kind").a)
                        \o <<Lit(")"), NL>>
             rest == TargetLines(Tail(targets))
         IN  [threw |-> rest.threw, text |-> line \o rest.text]

\* metadata.packages?.[0], for packages that is absent or an array
FirstPackage(metadata) ==
    LET packages == Prop(metadata, "packages")
    IN  IF packages.t = "array" /\ Len(packages.a) > 0 THEN packages.a[1]
        ELSE Undefined

\* what the try block of rust_project_info appends to output before it ends
\* or throws
MetadataSection(stdout) ==
    LET parsed == JSONParse(stdout)
        pkg == FirstPackage(parsed.value)
        targets == IF Truthy(Prop(pkg, "targets")) THEN Prop(pkg, "targets")
                   ELSE JArr(<<>>)
        lines == IF targets.t = "array" THEN TargetLines(targets.a)
                 ELSE [threw |-> TRUE, text |-> <<>>]
        deps == Prop(pkg, "dependencies")
    IN  IF parsed.threw \/ IsNullish(parsed.value) THEN <<>>
        ELSE IF ~Truthy(pkg) THEN <<>>
        ELSE <<NL, Emoji("clipboard"), Lit(" Targets:"), NL>> \o lines.text
                \o (IF ~lines.threw /\ deps.t = "array" /\ Len(deps.a) > 0
                    THEN <<NL, Emoji("books"), Lit(" Dependencies: ")>>
                            \o Dec(Len(deps.a)) \o <<NL>>
                    ELSE <<>>)

InfoReply(info, path, result) ==
    Reply(<<Emoji("package"), Lit(" Project: ")>> \o info.name \o <<Lit(" v")>>
          \o info.version \o <<NL>>
          \o <<Emoji("file folder"), Lit(" Path: ")>> \o ToText(path) \o <<NL>>
          \o MetadataSection(result.stdout))

---------------------------------------------------------------------------
(* What the cargo subprocesses write *)

\* the most data events of one subprocess the checks enumerate
MaxChunks == 2

LaunchError == <<Lit("spawn cargo ENOENT")>>

\* the chunks a cargo command may write to its standard output: a warning
\* record and a prose line; a failed test and the summary of its run; a
\* file rustfmt would change; the findings of the dependency tools (one of
\* them a line with the two bytes C3 AF of a non-ASCII letter, which the
\* pipe may also deliver in two chunks, cut between the two bytes); the
\* package description of cargo metadata.  A chunk is a Buffer: its ASCII
\* text stands as text units, a byte above 127 as [b |-> byte].
StdoutChunks(cargoArgs) ==
    CASE cargoArgs[1] \in {"check", "clippy", "build", "doc"} ->
            {<<CompilerMessage("warning", "unused variable", JNull,
                               <<SpanAt(1, "string")>>), NL>>,
             ProseLine \o <<NL>>}
      [] cargoArgs[1] = "test" ->
            {ResultLine(S(<<"a", ":", ":", "b">>), TokFailed) \o <<NL>>,
             SummaryLine(CHOOSE tr \in CountTriples : tr.passed = S(<<"2">>))
                \o <<NL>>}
      [] cargoArgs[1] = "fmt" ->
            {S(DiffIn) \o <<Lit(" /proj/src/a.rs at line 1:"), NL>>}
      [] cargoArgs[1] = "outdated" ->
            {S(UpToDate) \o <<Ch("!"), NL>>, <<Lit("serde 1.0.1 -> 1.0.2"), NL>>}
      [] cargoArgs[1] \in {"+nightly", "machete"} ->
            {<<Lit("serde: ")>> \o S(Unused) \o <<NL>>}
      [] cargoArgs[1] = "metadata" ->
            {<<Doc(JObj([packages |-> JArr(<<JObj(
                [targets |-> JArr(<<JObj([name |-> JStr("demo"),
                                          kind |-> JArr(<<JStr("bin")>>)])>>),
                 dependencies |-> JArr(<<JObj([name |-> JStr("serde")])>>)])>>)]))>>,
             <<Doc(JObj([packages |-> JArr(<<JObj(
                [targets |-> JArr(<<JObj([name |-> JStr("demo")])>>)])>>)]))>>,
             <<Doc(JNull)>>}
      [] OTHER -> {<<Lit("RUSTSEC-2020-0071 time 0.1.45"), NL>>,
                   <<Lit("Title: na"), [b |-> 195], [b |-> 175], Lit("ve parsing"), NL>>,
                   <<Lit("Title: na"), [b |-> 195]>>,
                   <<[b |-> 175], Lit("ve parsing"), NL>>}

\* the chunks a cargo command may write to its standard error
StderrChunks == {<<Lit("error: could not compile demo"), NL>>}

\* the exit status the close event carries: null when a signal ended the
\* process
CloseCodes == {JNum(0), JNum(101), JNull}

---------------------------------------------------------------------------
(* The requests the transport delivers *)

\* a tool name the switch has no case for
UnknownToolName == "bacon_bogus"
ToolNames == KnownTools \cup {UnknownToolName}

\* params.arguments: absent, a bag without path, an empty path, the path of
\* a directory without Cargo.toml, the path of a project
BaseArgs ==
    {Undefined,
     JObj([filter |-> JStr("a")]),
     JObj([path |-> JStr("")]),
     JObj([path |-> JStr("/tmp/empty")]),
     JObj([path |-> JStr("/proj")])}

\* requests that set options of a tool
OptionRequests ==
    {[name |-> "bacon_clippy",
      args |-> JObj([path |-> JStr("/proj"), pedantic |-> JBool(TRUE),
                     fix |-> JBool(TRUE), deny_warnings |-> JBool(TRUE),
                     allow |-> JArr(<<JStr("clippy::too_many_lines")>>),
                     deny |-> JArr(<<JStr("clippy::unwrap_used"),
                                     JStr("clippy::expect_used")>>)])],
     [name |-> "bacon_clippy",
      args |-> JObj([path |-> JStr("/proj"), all_targets |-> JBool(FALSE)])],
     [name |-> "bacon_clippy",
      args |-> JObj([path |-> JStr("/proj"), nursery |-> JBool(TRUE),
                     cargo |-> JBool(TRUE), restriction |-> JBool(TRUE),
                     warn |-> JArr(<<JStr("clippy::panic")>>)])],
     [name |-> "bacon_clippy",
      args |-> JObj([path |-> JStr("/proj"), pedantic |-> JBool(FALSE),
                     allow |-> JArr(<<>>)])],
     [name |-> "bacon_test",
      args |-> JObj([path |-> JStr("/proj"), filter |-> JStr("a"),
                     no_capture |-> JBool(TRUE)])],
     [name |-> "bacon_deny",
      args |-> JObj([path |-> JStr("/proj"), check |-> JStr("bans")])],
     [name |-> "bacon_machete",
      args |-> JObj([path |-> JStr("/proj"), fix |-> JBool(TRUE)])]}

Requests ==
    {[name |-> n, args |-> a] : n \in ToolNames, a \in BaseArgs}
        \cup OptionRequests

---------------------------------------------------------------------------
(* The specification of the tool-call handler serving one request *)

Init ==
    /\ ParserIdle
    /\ request \in Requests
    /\ pc = "received"
    /\ local = NoLocal
    /\ proc = NoProc
    /\ promise = NoPromise
    /\ spawned = <<>>
    /\ response = NoResponse

\* (args as { path?: string }).path
PathOf == Prop(request.args, "path")

\* the request passed the path check and the project check
Accepted ==
    /\ pc = "received"
    /\ ~IsNullish(request.args)
    /\ Truthy(PathOf)
    /\ validateRustProject(PathOf.s)

\* return { content: [{ type: "text", text }], isError }
Respond(reply) ==
    /\ response' = [sent |-> TRUE, text |-> reply.text, isError |-> reply.isError]
    /\ pc' = "responded"

\* await runCargoCommand(cargoArgs, path), up to the point the promise is
\* awaited: the process is spawned and the listeners are attached
RunCargoCommand(cargoArgs) ==
    /\ spawned' = Append(spawned, [args |-> cargoArgs, cwd |-> PathOf.s])
    /\ proc' = [NoProc EXCEPT !.phase = "running"]
    /\ promise' = NoPromise
    /\ pc' = "awaiting"

\* reading .path of an arguments bag that is not there throws a TypeError
ReadPathOfNothing ==
    /\ pc = "received"
    /\ IsNullish(request.args)
    /\ pc' = "thrown"
    /\ UNCHANGED <<parserVars, request, local, proc, promise, spawned, response>>

RequirePath ==
    /\ pc = "received"
    /\ ~IsNullish(request.args)
    /\ ~Truthy(PathOf)
    /\ Respond(ErrorReply(<<Lit("Error: path is required")>>))
    /\ UNCHANGED <<parserVars, request, local, proc, promise, spawned>>

RejectNonProject ==
    /\ pc = "received"
    /\ ~IsNullish(request.args)
    /\ Truthy(PathOf)
    /\ ~validateRustProject(PathOf.s)
    /\ Respond(ErrorReply(<<Lit("Error: No "), Lit("Cargo.toml"), Lit(" found at ")>>
                          \o ToText(PathOf)
                          \o <<Lit(". Is this a Rust project?")>>))
    /\ UNCHANGED <<parserVars, request, local, proc, promise, spawned>>

StartCommand ==
    /\ Accepted
    /\ request.name \in SingleCommandTools
    /\ RunCargoCommand(CargoArgs(request.name, request.args))
    /\ UNCHANGED <<parserVars, request, local, response>>

StartQuality ==
    /\ Accepted
    /\ request.name = "bacon_quality"
    /\ local' = [local EXCEPT
                    !.stage = 1,
                    !.output = <<Emoji("magnifying glass"), Lit(" **Comprehensive Code Quality Report**"),
                                 NL, NL, Lit("## Clippy (pedantic + nursery)"), NL>>]
    /\ RunCargoCommand(QualityArgs[1])
    /\ UNCHANGED <<parserVars, request, response>>

\* getProjectInfo returned null
RejectUnreadableProject ==
    /\ Accepted
    /\ request.name = "rust_project_info"
    /\ \E toml \in CargoTomls :
        /\ IsNullish(getProjectInfo(toml))
        /\ Respond(ErrorReply(<<Lit("Error: Could not parse "), Lit("Cargo.toml")>>))
    /\ UNCHANGED <<parserVars, request, local, proc, promise, spawned>>

StartProjectInfo ==
    /\ Accepted
    /\ request.name = "rust_project_info"
    /\ \E toml \in CargoTomls :
        /\ ~IsNullish(getProjectInfo(toml))
        /\ local' = [local EXCEPT
                        !.info = [name |-> ToText(Prop(getProjectInfo(toml), "name")),
                                  version |-> ToText(Prop(getProjectInfo(toml), "version"))]]
    /\ RunCargoCommand(MetadataArgs)
    /\ UNCHANGED <<parserVars, request, response>>

RejectUnknownTool ==
    /\ Accepted
    /\ request.name \notin KnownTools
    /\ Respond(ErrorReply(<<Lit("Unknown tool: "), Lit(request.name)>>))
    /\ UNCHANGED <<parserVars, request, local, proc, promise, spawned>>

\* a promise that takes the result of every resolve, also of a later one
ResolveAgain(result) == [settled |-> TRUE, result |-> result]

\* resolve(result): settles the promise unless it is settled already
Resolve(result) ==
    IF promise.settled THEN promise ELSE [settled |-> TRUE, result |-> result]

\* the command line of the process whose events are being delivered
CurrentArgs == spawned[Len(spawned)].args

\* data.toString() of a Buffer: the bytes are decoded as UTF-8 on their own.
\* A lead byte with its continuation byte gives the character [u |-> code
\* point]; a lead byte the chunk ends after, or a continuation byte without
\* its lead byte, gives U+FFFD.
toString(data) ==
    LET IsLead(k) == "b" \in DOMAIN data[k] /\ data[k].b \in 194..223
        IsContinuation(k) == "b" \in DOMAIN data[k] /\ data[k].b \in 128..191
        Consumed(k) == k > 1 /\ IsContinuation(k) /\ IsLead(k - 1)
        starts == SelectSeq([k \in DOMAIN data |-> k], LAMBDA k : ~Consumed(k))
    IN  [i \in DOMAIN starts |->
            LET k == starts[i]
            IN  IF "b" \notin DOMAIN data[k] THEN data[k]
                ELSE IF IsLead(k) /\ k < Len(data) /\ IsContinuation(k + 1)
                     THEN [u |-> (data[k].b - 192) * 64 + (data[k + 1].b - 128)]
                ELSE [u |-> 65533]]

\* proc.stdout.on("data", ...)
StdoutData ==
    /\ proc.phase \in {"running", "errored"}
    /\ proc.events < MaxChunks
    /\ \E data \in StdoutChunks(CurrentArgs) :
        proc' = [proc EXCEPT !.stdout = @ \o toString(data), !.events = @ + 1,
                             !.outBytes = @ \o data]
    /\ UNCHANGED <<parserVars, request, pc, local, promise, spawned, response>>

\* proc.stderr.on("data", ...)
StderrData ==
    /\ proc.phase \in {"running", "errored"}
    /\ proc.events < MaxChunks
    /\ \E data \in StderrChunks :
        proc' = [proc EXCEPT !.stderr = @ \o toString(data), !.events = @ + 1,
                             !.errBytes = @ \o data]
    /\ UNCHANGED <<parserVars, request, pc, local, promise, spawned, response>>

\* a close listener that takes a missing exit status for success
ProcCloseNullAsZero ==
    /\ proc.phase \in {"running", "errored"}
    /\ \E code \in CloseCodes :
        /\ promise' = Resolve([stdout |-> proc.stdout, stderr |-> proc.stderr,
                               exitCode |-> Coalesce(code, JNum(0)).n])
        /\ proc' = [proc EXCEPT !.phase = IF @ = "running" THEN "closed" ELSE "done",
                                !.code = code]
    /\ UNCHANGED <<parserVars, request, pc, local, spawned, response>>

\* proc.on("close", ...)
ProcClose ==
    /\ proc.phase \in {"running", "errored"}
    /\ \E code \in CloseCodes :
        /\ promise' = Resolve([stdout |-> proc.stdout, stderr |-> proc.stderr,
                               exitCode |-> Coalesce(code, JNum(1)).n])
        /\ proc' = [proc EXCEPT !.phase = IF @ = "running" THEN "closed" ELSE "done",
                                !.code = code]
    /\ UNCHANGED <<parserVars, request, pc, local, spawned, response>>

\* a process without an error listener: the promise is left as it is
ProcErrorUnheard ==
    /\ proc.phase \in {"running", "closed"}
    /\ promise' = promise
    /\ proc' = [proc EXCEPT !.phase = IF @ = "running" THEN "errored" ELSE "done"]
    /\ UNCHANGED <<parserVars, request, pc, local, spawned, response>>

\* proc.on("error", ...)
ProcError ==
    /\ proc.phase \in {"running", "closed"}
    /\ promise' = Resolve([stdout |-> proc.stdout, stderr |-> LaunchError,
                           exitCode |-> 1])
    /\ proc' = [proc EXCEPT !.phase = IF @ = "running" THEN "errored" ELSE "done"]
    /\ UNCHANGED <<parserVars, request, pc, local, spawned, response>>

\* the handler resumes with the CommandResult of the command it awaited
Resumed == pc = "awaiting" /\ promise.settled

\* a handler that runs the command a second time after a first failure
FinishCommandRetrying ==
    /\ Resumed
    /\ request.name \in SingleCommandTools
    /\ IF promise.result.exitCode # 0 /\ Len(spawned) = 1
       THEN /\ RunCargoCommand(CurrentArgs)
            /\ UNCHANGED <<parserVars, request, local, response>>
       ELSE /\ Respond(ToolReply(request.name, request.args, promise.result))
            /\ UNCHANGED <<parserVars, request, local, proc, promise, spawned>>

\* the one command of a single-command tool has completed
FinishCommand ==
    /\ Resumed
    /\ request.name \in SingleCommandTools
    /\ Respond(ToolReply(request.name, request.args, promise.result))
    /\ UNCHANGED <<parserVars, request, local, proc, promise, spawned>>

QualityAfterClippy ==
    /\ Resumed
    /\ request.name = "bacon_quality"
    /\ local.stage = 1
    /\ LET clippyDiagnostics == parseCargoDiagnostics(promise.result.stdout).value
       IN  local' = [local EXCEPT
                        !.stage = 2,
                        !.issues = Len(clippyDiagnostics),
                        !.output = @ \o formatDiagnostics(clippyDiagnostics)
                                     \o <<NL, Lit("## Formatting"), NL>>]
    /\ RunCargoCommand(QualityArgs[2])
    /\ UNCHANGED <<parserVars, request, response>>

QualityAfterFmt ==
    /\ Resumed
    /\ request.name = "bacon_quality"
    /\ local.stage = 2
    /\ local' = [local EXCEPT
                    !.stage = 3,
                    !.fmtFailed = promise.result.exitCode # 0,
                    !.output = @ \o (IF promise.result.exitCode = 0
                                     THEN <<Emoji("check mark"), Lit(" All files are properly formatted!"),
                                            NL, NL>>
                                     ELSE <<Emoji("warning sign"), Lit(" ")>>
                                            \o Dec(Len(Unformatted(promise.result.stdout)))
                                            \o <<Lit(" file(s) need formatting"), NL, NL>>)
                                 \o <<Lit("## Documentation"), NL>>]
    /\ RunCargoCommand(QualityArgs[3])
    /\ UNCHANGED <<parserVars, request, response>>

\* a summary that leaves the format check out of the total
QualityAfterDocWithoutFmt ==
    /\ Resumed
    /\ request.name = "bacon_quality"
    /\ local.stage = 3
    /\ LET docDiagnostics == parseCargoDiagnostics(promise.result.stdout).value
           totalIssues == local.issues + Len(docDiagnostics)
       IN  Respond(Reply(
               local.output
               \o (IF Len(docDiagnostics) = 0
                   THEN <<Emoji("check mark"), Lit(" Documentation builds without warnings!"), NL, NL>>
                   ELSE formatDiagnostics(docDiagnostics) \o <<NL>>)
               \o <<Lit("## Summary"), NL>>
               \o (IF totalIssues = 0
                   THEN <<Emoji("check mark"), Lit(" **Excellent!** No quality issues found.")>>
                   ELSE <<Emoji("warning sign"), Lit(" Found ")>> \o Dec(totalIssues)
                           \o <<Lit(" issue(s) to address.")>>)))
    /\ UNCHANGED <<parserVars, request, local, proc, promise, spawned>>

\* the doc command has completed: the report is finished and returned
QualityAfterDoc ==
    /\ Resumed
    /\ request.name = "bacon_quality"
    /\ local.stage = 3
    /\ LET docDiagnostics == parseCargoDiagnostics(promise.result.stdout).value
           totalIssues == local.issues + Len(docDiagnostics)
                            + (IF local.fmtFailed THEN 1 ELSE 0)
       IN  Respond(Reply(
               local.output
               \o (IF Len(docDiagnostics) = 0
                   THEN <<Emoji("check mark"), Lit(" Documentation builds without warnings!"), NL, NL>>
                   ELSE formatDiagnostics(docDiagnostics) \o <<NL>>)
               \o <<Lit("## Summary"), NL>>
               \o (IF totalIssues = 0
                   THEN <<Emoji("check mark"), Lit(" **Excellent!** No quality issues found.")>>
                   ELSE <<Emoji("warning sign"), Lit(" Found ")>> \o Dec(totalIssues)
                           \o <<Lit(" issue(s) to address.")>>)))
    /\ UNCHANGED <<parserVars, request, local, proc, promise, spawned>>

FinishProjectInfo ==
    /\ Resumed
    /\ request.name = "rust_project_info"
    /\ Respond(InfoReply(local.info, PathOf, promise.result))
    /\ UNCHANGED <<parserVars, request, local, proc, promise, spawned>>

Next ==
    \/ ReadPathOfNothing
    \/ RequirePath
    \/ RejectNonProject
    \/ StartCommand
    \/ StartQuality
    \/ RejectUnreadableProject
    \/ StartProjectInfo
    \/ RejectUnknownTool
    \/ StdoutData
    \/ StderrData
    \/ ProcClose
    \/ ProcError
    \/ FinishCommand
    \/ QualityAfterClippy
    \/ QualityAfterFmt
    \/ QualityAfterDoc
    \/ FinishProjectInfo

Spec == Init /\ [][Next]_vars

---------------------------------------------------------------------------
(* Claims about the tool-call handler, checked under Spec *)

\* the request supplies a path whose directory lacks Cargo.toml
SuppliesNonProjectPath ==
    /\ ~IsNullish(request.args)
    /\ Truthy(PathOf)
    /\ PathOf.s \notin ProjectDirs

\* C1: for every tool name, known or unknown, and every supplied path whose
\* directory lacks Cargo.toml, the handler answers with an error-flagged
\* response whose text names Cargo.toml and the supplied path, and at no
\* point of handling the request is a subprocess spawned or awaited.
C1_NonProjectRejectedBeforeAnySpawn ==
    SuppliesNonProjectPath =>
        /\ spawned = <<>>
        /\ proc = NoProc
        /\ pc \in {"received", "responded"}
        /\ pc = "responded" =>
            /\ response.sent
            /\ response.isError
            /\ Contains(response.text, <<Lit("Cargo.toml")>>)
            /\ Contains(response.text, ToText(PathOf))

\* a bacon_check request for a directory without Cargo.toml was answered
C1_Witness ==
    /\ SuppliesNonProjectPath
    /\ request.name = "bacon_check"
    /\ pc = "responded"
    /\ response.isError
    /\ spawned = <<>>

\* C2: for every request the transport delivers (any tool name, arguments
\* present or absent, any outcome of the subprocesses) the handler never
\* throws, and what it returns is a response that carries text.
C2_RespondsAndNeverThrows ==
    /\ pc # "thrown"
    /\ pc = "responded" => response.sent /\ response.text # <<>>

---------------------------------------------------------------------------
(* The specification of the two formatters applied to their arguments *)

\* the longest diagnostic sequence the checks enumerate
MaxDiagnostics == 2
\* the longest list of test outcomes the checks enumerate
MaxOutcomes == 3

\* Diagnostic sequences: each of the four levels, with and without a code,
\* without a suggestion, with one, and with the empty replacement
DiagnosticLists ==
    LET samples ==
            {[level |-> JStr(l), code |-> c, message |-> JStr("mismatched types"),
              file |-> JStr("src/main.rs"), line |-> JNum(10), column |-> JNum(5),
              rendered |-> JStr("mismatched types"), suggestion |-> g] :
                l \in {"error", "warning", "note", "help"},
                c \in {Undefined, JStr("E0308")},
                g \in {Undefined, JStr("x as u8"), JStr("")}}
    IN  UNION {[1..n -> samples] : n \in 0..MaxDiagnostics}

\* lists of test outcomes, with the summary parseTestOutput made for them
TestResultLists ==
    LET samples ==
            {[name |-> S(<<"a">>), status |-> S(<<"o", "k">>)],
             [name |-> S(<<"b">>), status |-> S(<<"f", "a", "i", "l", "e", "d">>)],
             [name |-> S(<<"c">>), status |-> S(<<"f", "a", "i", "l", "e", "d">>)],
             [name |-> S(<<"d">>), status |-> S(<<"i", "g", "n", "o", "r", "e", "d">>)]}
        tests == UNION {[1..n -> samples] : n \in 0..MaxOutcomes}
    IN  UNION {{[tests |-> ts, summary |-> sm] :
                    sm \in {S(<<"2", " ", "p", "a", "s", "s", "e", "d">>),
                            SummaryFromCount(ts)}} : ts \in tests}

\* either a diagnostic sequence is there to be formatted, or a list of
\* outcomes with the CommandResult of the test run
InitFormat ==
    /\ output = <<>>
    /\ called = FALSE
    /\ request = [name |-> "", args |-> Undefined]
    /\ pc = "idle"
    /\ local = NoLocal
    /\ proc = NoProc
    /\ spawned = <<>>
    /\ response = NoResponse
    /\ \/ /\ diagnostics \in {[raised |-> FALSE, value |-> ds] : ds \in DiagnosticLists}
          /\ testResult = NoTests
          /\ promise = NoPromise
       \/ /\ diagnostics = NotRun
          /\ testResult \in TestResultLists
          /\ promise \in {[settled |-> TRUE,
                           result |-> [stdout |-> <<>>, stderr |-> e, exitCode |-> x]] :
                             e \in {<<>>} \cup StderrChunks, x \in {0, 101}}

CallFormatDiagnostics ==
    /\ ~called
    /\ ~promise.settled
    /\ called' = TRUE
    /\ output' = formatDiagnostics(diagnostics.value)
    /\ UNCHANGED <<diagnostics, testResult, handlerVars>>

CallFormatTestResults ==
    /\ ~called
    /\ promise.settled
    /\ called' = TRUE
    /\ output' = formatTestResults(testResult.tests, testResult.summary,
                                   promise.result.exitCode, promise.result.stderr)
    /\ UNCHANGED <<diagnostics, testResult, handlerVars>>

SpecFormat ==
    InitFormat /\ [][CallFormatDiagnostics \/ CallFormatTestResults]_vars

---------------------------------------------------------------------------
(* Claims about formatDiagnostics, checked under SpecFormat *)

\* formatDiagnostics has returned
FormattedDiagnostics == called /\ ~promise.settled

\* the number of diagnostics of ds whose level is the string l
CountOfLevel(ds, l) ==
    Cardinality({i \in DOMAIN ds : ds[i].level.t = "string" /\ ds[i].level.s = l})

\* C11: the empty sequence is formatted as exactly "No issues found."; every
\* non-empty sequence gets another text, which starts with the counts header.
C11_NoIssuesFoundIffEmpty ==
    FormattedDiagnostics =>
        IF diagnostics.value = <<>>
        THEN output = <<Lit("No issues found.")>>
        ELSE /\ output # <<Lit("No issues found.")>>
             /\ Len(output) > 0
             /\ output[1] = Lit("Found ")

\* the empty sequence was formatted
C11_Witness ==
    /\ FormattedDiagnostics
    /\ diagnostics.value = <<>>
    /\ output = <<Lit("No issues found.")>>

\* "Found E error(s) and W warning(s):"
CountsHeader(e, w) ==
    <<Lit("Found ")>> \o Dec(e) \o <<Lit(" error(s) and ")>> \o Dec(w)
        \o <<Lit(" warning(s):"), NL>>

\* C12: for a non-empty sequence the header states the number of diagnostics
\* of level error and the number of level warning; notes and helps change
\* neither count, so the two counts never add up to more than the sequence.
C12_HeaderCountsErrorsAndWarnings ==
    (FormattedDiagnostics /\ diagnostics.value # <<>>) =>
        LET ds == diagnostics.value
            header == CountsHeader(CountOfLevel(ds, "error"),
                                   CountOfLevel(ds, "warning"))
        IN  /\ Len(output) >= Len(header)
            /\ SubSeq(output, 1, Len(header)) = header
            /\ CountOfLevel(ds, "error") + CountOfLevel(ds, "warning") <= Len(ds)

\* an error and a note were formatted: the header counts 1 and 0
C12_Witness ==
    /\ FormattedDiagnostics
    /\ Len(diagnostics.value) = 2
    /\ CountOfLevel(diagnostics.value, "error") = 1
    /\ CountOfLevel(diagnostics.value, "note") = 1
    /\ SubSeq(output, 1, 6) = CountsHeader(1, 0)

\* the lines the claim gives the entry of d: marker, code in brackets when
\* there is one, message; then the location; then, if wanted, a suggestion
EntryOf(d, withSuggestion) ==
    <<(IF d.level.s = "error" THEN Emoji("cross mark")
       ELSE IF d.level.s = "warning" THEN Emoji("warning sign")
       ELSE Emoji("information")),
      Lit(" ")>>
        \o (IF d.code.t = "string" THEN <<Lit("["), Lit(d.code.s), Lit("] ")>> ELSE <<>>)
        \o <<Lit(d.message.s), NL>>
        \o <<Lit("   (arrow) "), Lit(d.file.s), Lit(":")>> \o Dec(d.line.n)
        \o <<Lit(":")>> \o Dec(d.column.n) \o <<NL>>
        \o (IF withSuggestion
            THEN <<Lit("   "), Emoji("light bulb"), Lit(" Suggestion: ")>>
                    \o ToText(d.suggestion) \o <<NL>>
            ELSE <<>>)
        \o <<NL>>

\* the entries of ds from the k-th on, in order; flags says which of them
\* carry a suggestion line
RECURSIVE EntriesFrom(_, _, _)
EntriesFrom(ds, flags, k) ==
    IF k > Len(ds) THEN <<>>
    ELSE EntryOf(ds[k], flags[k]) \o EntriesFrom(ds, flags, k + 1)

\* C13: every diagnostic is rendered exactly once and in input order, whatever
\* its level: marker, code in brackets only when there is a code, message,
\* and the location line file:line:column; notes and helps are not left out.
C13_EveryDiagnosticRenderedInOrder ==
    (FormattedDiagnostics /\ diagnostics.value # <<>>) =>
        LET ds == diagnostics.value
            header == CountsHeader(CountOfLevel(ds, "error"),
                                   CountOfLevel(ds, "warning")) \o <<NL>>
        IN  \E flags \in [DOMAIN ds -> BOOLEAN] :
                output = header \o EntriesFrom(ds, flags, 1)

\* a note without a code, then an error with a code, were rendered
C13_Witness ==
    /\ FormattedDiagnostics
    /\ Len(diagnostics.value) = 2
    /\ diagnostics.value[1].level.s = "note"
    /\ diagnostics.value[1].code = Undefined
    /\ diagnostics.value[2].level.s = "error"
    /\ diagnostics.value[2].code = JStr("E0308")
    /\ Contains(output, <<Emoji("information"), Lit(" "), Lit("mismatched types")>>)
    /\ Contains(output, <<Emoji("cross mark"), Lit(" "), Lit("["), Lit("E0308")>>)

---------------------------------------------------------------------------
(* Claims about formatTestResults, checked under SpecFormat *)

\* formatTestResults has returned
FormattedTests == called /\ promise.settled

\* the positions of the outcomes of ts whose status is st
WithStatus(ts, st) == {i \in DOMAIN ts : ts[i].status = S(st)}

\* the section the claim calls "Compilation or other error"
ErrorSection(stderr) == <<NL, Lit("Compilation or other error:"), NL>> \o stderr

EndsWith(t, x) == Len(t) >= Len(x) /\ SubSeq(t, Len(t) - Len(x) + 1, Len(t)) = x

\* C14: the "Compilation or other error" section, with the raw stderr text
\* verbatim, is appended if and only if the exit code is non-zero and no
\* outcome is failed; when an outcome is failed the section is absent and the
\* outcome's name stands under the failed-tests heading.
C14_ErrorSectionIffFailureWithoutFailedTest ==
    FormattedTests =>
        LET ts == testResult.tests
            failed == WithStatus(ts, <<"f", "a", "i", "l", "e", "d">>)
            hasSection == Contains(output, <<Lit("Compilation or other error:")>>)
        IN  /\ hasSection <=> (promise.result.exitCode # 0 /\ failed = {})
            /\ hasSection => EndsWith(output, ErrorSection(promise.result.stderr))
            /\ failed # {} =>
                /\ ~hasSection
                /\ Contains(output, <<Emoji("cross mark"), Lit(" Failed tests:"), NL>>)
                /\ \A i \in failed :
                        Contains(output, <<Lit("   - ")>> \o ts[i].name \o <<NL>>)

\* no outcome, exit code 101 and a compile error on stderr: the section is
\* there and ends with that text
C14_Witness ==
    /\ FormattedTests
    /\ testResult.tests = <<>>
    /\ promise.result.exitCode = 101
    /\ promise.result.stderr # <<>>
    /\ EndsWith(output, ErrorSection(promise.result.stderr))

\* the names of the failed outcomes of ts from the k-th on, one line each
RECURSIVE FailedLinesFrom(_, _)
FailedLinesFrom(ts, k) ==
    IF k > Len(ts) THEN <<>>
    ELSE (IF ts[k].status = S(<<"f", "a", "i", "l", "e", "d">>)
          THEN <<Lit("   - ")>> \o ts[k].name \o <<NL>>
          ELSE <<>>)
            \o FailedLinesFrom(ts, k + 1)

\* C15: the text is, in this order, the summary line, the failed-tests
\* section with every failed name in input order (iff an outcome failed), the
\* passed-count line (iff one passed), the ignored-count line (iff one was
\* ignored); the counts are the numbers of outcomes of that status.
C15_SectionsInOrderWithCounts ==
    FormattedTests =>
        LET ts == testResult.tests
            nFailed == Cardinality(WithStatus(ts, <<"f", "a", "i", "l", "e", "d">>))
            nPassed == Cardinality(WithStatus(ts, <<"o", "k">>))
            nIgnored == Cardinality(WithStatus(ts, <<"i", "g", "n", "o", "r", "e", "d">>))
            body ==
                <<Lit("Test Results: ")>> \o testResult.summary \o <<NL, NL>>
                    \o (IF nFailed > 0
                        THEN <<Emoji("cross mark"), Lit(" Failed tests:"), NL>>
                                \o FailedLinesFrom(ts, 1) \o <<NL>>
                        ELSE <<>>)
                    \o (IF nPassed > 0
                        THEN <<Emoji("check mark"), Lit(" Passed: ")>> \o Dec(nPassed)
                                \o <<Lit(" tests"), NL>>
                        ELSE <<>>)
                    \o (IF nIgnored > 0
                        THEN <<Emoji("next track"), Lit(" Ignored: ")>> \o Dec(nIgnored)
                                \o <<Lit(" tests"), NL>>
                        ELSE <<>>)
        IN  \/ output = body
            \/ output = body \o ErrorSection(promise.result.stderr)

\* two failed outcomes and a passed one were formatted: both names are
\* listed in input order, then the passed count
C15_Witness ==
    /\ FormattedTests
    /\ Len(testResult.tests) = 3
    /\ testResult.tests[1].name = S(<<"c">>)
    /\ testResult.tests[2].name = S(<<"a">>)
    /\ testResult.tests[3].name = S(<<"b">>)
    /\ Contains(output, <<Lit("   - "), Ch("c"), NL, Lit("   - "), Ch("b"), NL, NL,
                          Emoji("check mark"), Lit(" Passed: "), Ch("1")>>)

---------------------------------------------------------------------------
(* Claims about runCargoCommand, checked under Spec *)

\* C16: runCargoCommand never leaves its caller without a CommandResult: a
\* process that cannot be started (the error event comes first) resolves the
\* promise with a non-zero exitCode and the launch failure message as stderr,
\* and a process that closes with an exit status resolves it with that status.
C16_LaunchFailureResolvesWithResult ==
    /\ proc.phase \in {"errored", "closed", "done"} => promise.settled
    /\ proc.phase = "errored" =>
        /\ promise.result.exitCode # 0
        /\ promise.result.stderr = LaunchError
    /\ (proc.phase = "closed" /\ proc.code.t = "number") =>
        promise.result.exitCode = proc.code.n

\* the process could not be started: the caller holds a result with exit
\* code 1 and the message of the error
C16_Witness ==
    /\ proc.phase = "errored"
    /\ proc.events = 0
    /\ promise.settled
    /\ promise.result = [stdout |-> <<>>, stderr |-> LaunchError, exitCode |-> 1]

\* C17: the exitCode of every CommandResult is an integer; a close without an
\* exit status (the process was ended by a signal) gives 1, and exitCode is 0
\* only when the process itself reported exit status 0.
C17_ExitCodeIsNormalized ==
    promise.settled =>
        /\ promise.result.exitCode \in Int
        /\ promise.result.exitCode = 0 => proc.code = JNum(0)
        /\ (proc.phase = "closed" /\ IsNullish(proc.code)) =>
            promise.result.exitCode = 1

\* a process that wrote output was ended by a signal: the result has exit
\* code 1
C17_Witness ==
    /\ proc.phase = "closed"
    /\ proc.code = JNull
    /\ proc.stdout # <<>>
    /\ promise.settled
    /\ promise.result.exitCode = 1
    /\ promise.result.stdout = proc.stdout

---------------------------------------------------------------------------
(* Claims about the responses of the tools, checked under Spec *)

\* the handler has answered a request that passed both checks, and the
\* command it ran last closed with a non-zero exit status, which became the
\* exit code of its CommandResult
AnsweredAfterNonZeroExit ==
    /\ pc = "responded"
    /\ request.name \in KnownTools
    /\ promise.settled
    /\ proc.code.t = "number"
    /\ proc.code.n # 0
    /\ promise.result.exitCode = proc.code.n

\* the response text shows what the command reported: the located
\* diagnostics of a cargo JSON command, the names of the failed tests (or the
\* error stream when no test failed), the files rustfmt would change, and the
\* report of a dependency tool
FindingsShown ==
    LET r == promise.result
        text == response.text
    IN  CASE request.name \in {"bacon_check", "bacon_clippy", "bacon_clippy_strict",
                               "bacon_build", "bacon_doc", "bacon_quality"} ->
                (\E i \in DOMAIN r.stdout : "j" \in DOMAIN r.stdout[i])
                    => /\ Contains(text, <<Emoji("warning sign"), Lit(" "),
                                           Lit("unused variable"), NL>>)
                       /\ Contains(text, <<Lit("   (arrow) "), Lit(FileNames[1]), Lit(":")>>)
          [] request.name = "bacon_test" ->
                /\ Includes(r.stdout, <<"t", "e", "s", "t", " ", "a", ":", ":", "b", " ",
                                        ".", ".", ".", " ", "F", "A", "I", "L", "E", "D">>)
                    => Contains(text, <<Lit("   - ")>> \o S(<<"a", ":", ":", "b">>) \o <<NL>>)
                /\ (~Includes(r.stdout, <<"F", "A", "I", "L", "E", "D">>) /\ r.stderr # <<>>)
                    => Contains(text, r.stderr)
          [] request.name = "bacon_fmt_check" ->
                Includes(r.stdout, DiffIn)
                    => Contains(text, S(DiffIn) \o <<Lit(" /proj/src/a.rs at line 1:")>>)
          [] request.name \in {"bacon_audit", "bacon_deny", "bacon_udeps",
                               "bacon_machete"} ->
                r.stdout # <<>> => Contains(text, r.stdout)
          [] request.name = "bacon_outdated" ->
                Contains(r.stdout, <<Lit("serde 1.0.1 -> 1.0.2")>>)
                    => Contains(text, <<Lit("serde 1.0.1 -> 1.0.2")>>)
          [] OTHER -> TRUE

\* C18: for every known tool and every request that passed the path and
\* project checks, a subprocess that exits non-zero because the tool reports
\* findings yields a response without the error flag whose text contains the
\* findings.
C18_FindingsAnsweredWithoutErrorFlag ==
    AnsweredAfterNonZeroExit => ~response.isError /\ FindingsShown

\* the position of the first unit u of text, 0 when it is not there
FirstIndexOf(text, u) ==
    IF \E i \in DOMAIN text : text[i] = u
    THEN CHOOSE i \in DOMAIN text : text[i] = u /\ \A k \in 1..(i - 1) : text[k] # u
    ELSE 0

\* the sub-invocations bacon_quality has spawned so far are the first ones
\* of clippy, fmt --check, doc, in that order
QualitySpawnedInOrder ==
    /\ Len(spawned) <= 3
    /\ \A k \in DOMAIN spawned :
        /\ spawned[k].cwd = PathOf.s
        /\ spawned[k].args[1] = <<"clippy", "fmt", "doc">>[k]

\* the report carries its four headings in the order clippy, formatting,
\* documentation, summary
QualitySectionsInOrder ==
    LET at(h) == FirstIndexOf(response.text, Lit(h))
    IN  /\ 0 < at("## Clippy (pedantic + nursery)")
        /\ at("## Clippy (pedantic + nursery)") < at("## Formatting")
        /\ at("## Formatting") < at("## Documentation")
        /\ at("## Documentation") < at("## Summary")

\* C19: the three sub-invocations of one bacon_quality request run one after
\* another in the order clippy, fmt --check, doc: one is spawned only after
\* the result of the previous one is there, whatever that result is (exit
\* code or launch failure), the response comes only after all three, and its
\* sections stand in that order, followed by the summary.
C19_QualityRunsItsStagesInSequence ==
    /\ [](request.name = "bacon_quality" =>
            /\ QualitySpawnedInOrder
            /\ (proc.phase = "running" /\ ~promise.settled) => pc = "awaiting"
            /\ pc = "responded" =>
                /\ Len(spawned) \in {0, 3}
                /\ Len(spawned) = 3 => QualitySectionsInOrder)
    /\ [][(request.name = "bacon_quality" /\ Len(spawned') > Len(spawned))
            => /\ Len(spawned') = Len(spawned) + 1
               /\ (Len(spawned) > 0 => promise.settled)
               /\ ~promise'.settled]_vars

\* a quality report was returned although the format check exited non-zero
\* and the doc command could not be started
C19_Witness ==
    /\ request.name = "bacon_quality"
    /\ pc = "responded"
    /\ Len(spawned) = 3
    /\ local.fmtFailed
    /\ proc.phase \in {"errored", "done"}
    /\ promise.result.stderr = LaunchError
    /\ QualitySectionsInOrder

\* the request carries no path: there are no arguments, or the arguments
\* hold no path or an empty one
CarriesNoPath == IsNullish(request.args) \/ ~Truthy(PathOf)

\* C20: a request that carries no path (missing or empty) is answered, for
\* every tool name, with an error-flagged response that says path is
\* required; no subprocess is spawned for it and nothing is retried.
C20_MissingPathAnsweredWithError ==
    CarriesNoPath =>
        /\ spawned = <<>>
        /\ proc = NoProc
        /\ pc \in {"received", "responded"}
        /\ pc = "responded" =>
            /\ response.isError
            /\ response.text = <<Lit("Error: path is required")>>

\* the handler has answered after the command it ran last could not be
\* launched: the CommandResult it got is the one of the error event
AnsweredAfterLaunchFailure ==
    /\ pc = "responded"
    /\ request.name \in KnownTools
    /\ promise.settled
    /\ promise.result.stderr = LaunchError
    /\ promise.result.exitCode = 1

\* C22: for any tool, when the toolchain process cannot be launched the
\* handler returns a response, and the text of the response carries the
\* launch error text of the CommandResult's error stream.
C22_LaunchErrorTextInResponse ==
    AnsweredAfterLaunchFailure =>
        /\ response.sent
        /\ Contains(response.text, LaunchError)

---------------------------------------------------------------------------
(* A claim about suggestions, checked under SpecFormat *)

\* C23: a suggestion line is emitted for a diagnostic if and only if it has
\* a suggestion: every Diagnostic whose suggestion is a string, of any
\* length, the empty replacement included, gets a suggestion line, and one
\* without a suggestion gets none.
C23_SuggestionLineIffSuggestion ==
    (FormattedDiagnostics /\ diagnostics.value # <<>>) =>
        LET ds == diagnostics.value
            header == CountsHeader(CountOfLevel(ds, "error"),
                                   CountOfLevel(ds, "warning")) \o <<NL>>
            suggested == [k \in DOMAIN ds |-> ds[k].suggestion.t = "string"]
        IN  output = header \o EntriesFrom(ds, suggested, 1)

---------------------------------------------------------------------------
(* A claim about the letter case of outcome tokens, checked under SpecTest *)

\* the line is "test <identifier> ... <token>" for a token that is st in
\* some letter case
IsResultLineInAnyCase(l, st) ==
    /\ Len(l) >= 5 + 1 + 5 + Len(st)
    /\ OccursAt(l, 1, S(<<"t", "e", "s", "t", " ">>))
    /\ ToLowerCase(SubSeq(l, Len(l) - Len(st) - 4, Len(l)))
            = S(<<" ", ".", ".", ".", " ">>) \o S(st)

\* C24: the outcome token of a test line is recognized in any letter case: a
\* line "test <identifier> ... <token>" whose token is a case variant of ok,
\* FAILED or ignored yields an outcome with the normalized status.
C24_TokenRecognizedInAnyCase ==
    called =>
        \A k \in DOMAIN Split(output) :
            \A st \in {<<"o", "k">>, <<"f", "a", "i", "l", "e", "d">>,
                       <<"i", "g", "n", "o", "r", "e", "d">>} :
                IsResultLineInAnyCase(Split(output)[k], st) =>
                    \E j \in DOMAIN testResult.tests :
                        testResult.tests[j] =
                            [name |-> SubSeq(Split(output)[k], 6,
                                             Len(Split(output)[k]) - Len(st) - 5),
                             status |-> S(st)]

\* C24, amended: the tokens are recognized as the toolchain
\* writes them (ok, FAILED, ignored) and only so; the status of the outcome
\* is the token in lower case, and a line whose token stands in another
\* letter case yields no outcome.
C24_TokenRecognizedAsWrittenOnly ==
    called =>
        \A k \in DOMAIN Split(output) :
            LET l == Split(output)[k]
            IN  /\ IsResultLine(l) =>
                    \E j \in DOMAIN testResult.tests :
                        testResult.tests[j] =
                            [name |-> IdentifierOf(l), status |-> StatusOf(TokenOf(l))]
                /\ \A st \in {<<"o", "k">>, <<"f", "a", "i", "l", "e", "d">>,
                              <<"i", "g", "n", "o", "r", "e", "d">>} :
                    (IsResultLineInAnyCase(l, st) /\ ~IsResultLine(l)) =>
                        \A j \in DOMAIN testResult.tests :
                            testResult.tests[j].name # SubSeq(l, 6, Len(l) - Len(st) - 5)

\* a text with "test a::b ... FAILED" and "test e ... failed" was parsed: the
\* one outcome is a::b, with status failed
C24_Witness ==
    /\ called
    /\ Len(Split(output)) >= 2
    /\ IsResultLineOf(Split(output)[1], TokFailed)
    /\ Split(output)[2] = LowerCaseFailedLine
    /\ Len(testResult.tests) = 1
    /\ testResult.tests[1].status = S(<<"f", "a", "i", "l", "e", "d">>)

---------------------------------------------------------------------------
(* The argument list of bacon_clippy *)

\* whether the option is set in the bag of arguments
IsSet(args, opt) == Prop(args, opt) = JBool(TRUE)

\* one pair flag, lint per entry of the list option, in the order of the list
PairsOfOption(args, opt, flag) ==
    IF Prop(args, opt).t # "array" THEN <<>>
    ELSE LET l == Prop(args, opt).a
         IN  [i \in 1..(2 * Len(l)) |->
                 IF i % 2 = 1 THEN flag ELSE l[(i + 1) \div 2].s]

\* the lint flags that result from the options, in the stated order
ExpectedLintFlags(args) ==
    (IF IsSet(args, "pedantic") THEN <<"-W", "clippy::pedantic">> ELSE <<>>)
        \o (IF IsSet(args, "nursery") THEN <<"-W", "clippy::nursery">> ELSE <<>>)
        \o (IF IsSet(args, "cargo") THEN <<"-W", "clippy::cargo">> ELSE <<>>)
        \o (IF IsSet(args, "restriction") THEN <<"-W", "clippy::restriction">> ELSE <<>>)
        \o (IF IsSet(args, "deny_warnings") THEN <<"-D", "warnings">> ELSE <<>>)
        \o PairsOfOption(args, "allow", "-A")
        \o PairsOfOption(args, "warn", "-W")
        \o PairsOfOption(args, "deny", "-D")

\* a bacon_clippy request whose command has been handed to the runner
ClippyCommandRun == request.name = "bacon_clippy" /\ Len(spawned) >= 1

\* C25: the argument list bacon_clippy passes to the runner is "clippy",
\* "--message-format=json", "--all-targets" unless all_targets is false, the
\* three fix flags when fix is set and then, only when a lint flag results,
\* one "--" followed by the group pairs, "-D warnings" and the pairs of allow,
\* warn and deny, each list in its order; the command runs in the directory
\* of the request.
C25_ClippyArgumentOrder ==
    ClippyCommandRun =>
        LET a == request.args
            flags == ExpectedLintFlags(a)
        IN  /\ spawned[1].cwd = Prop(a, "path").s
            /\ spawned[1].args =
                   <<"clippy", "--message-format=json">>
                       \o (IF Prop(a, "all_targets") = JBool(FALSE) THEN <<>>
                           ELSE <<"--all-targets">>)
                       \o (IF IsSet(a, "fix")
                           THEN <<"--fix", "--allow-dirty", "--allow-staged">> ELSE <<>>)
                       \o (IF flags = <<>> THEN <<>> ELSE <<"--">> \o flags)

\* the request with pedantic, fix, deny_warnings, one allowed and two denied
\* lints has been answered
C25_Witness ==
    /\ pc = "responded"
    /\ ClippyCommandRun
    /\ spawned[1].args =
           <<"clippy", "--message-format=json", "--all-targets",
             "--fix", "--allow-dirty", "--allow-staged", "--",
             "-W", "clippy::pedantic", "-D", "warnings",
             "-A", "clippy::too_many_lines",
             "-D", "clippy::unwrap_used", "-D", "clippy::expect_used">>

---------------------------------------------------------------------------
(* The total of bacon_quality *)

\* a quality report has been returned after its three commands
QualityReported ==
    request.name = "bacon_quality" /\ pc = "responded" /\ Len(spawned) = 3

\* the total of the report returned: the clippy diagnostics, the doc
\* diagnostics, and 1 for a format check that exited non-zero
ReportedTotal ==
    local.issues + Len(parseCargoDiagnostics(promise.result.stdout).value)
        + (IF local.fmtFailed THEN 1 ELSE 0)

NoQualityIssues == <<Lit(" **Excellent!** No quality issues found.")>>
FoundIssues(n) == <<Lit(" Found ")>> \o Dec(n) \o <<Lit(" issue(s) to address.")>>

\* C26: the total of bacon_quality is the number of clippy diagnostics plus
\* the number of doc diagnostics plus 1 if the format check exited non-zero;
\* the report says that no quality issues were found if and only if the
\* total is 0, and otherwise states the total.
C26_QualityTotal ==
    /\ [](QualityReported =>
            /\ ReportedTotal = 0 =>
                /\ EndsWith(response.text, NoQualityIssues)
                /\ ~Contains(response.text, <<Lit(" issue(s) to address.")>>)
            /\ ReportedTotal > 0 =>
                /\ EndsWith(response.text, FoundIssues(ReportedTotal))
                /\ ~Contains(response.text, NoQualityIssues))
    /\ [][(request.name = "bacon_quality" /\ Len(spawned') > Len(spawned)) =>
            /\ Len(spawned) = 1 =>
                local'.issues = Len(parseCargoDiagnostics(promise.result.stdout).value)
            /\ Len(spawned) = 2 =>
                /\ local'.fmtFailed = (promise.result.exitCode # 0)
                /\ local'.issues = local.issues]_vars

\* a report with one clippy diagnostic, a failed format check and one doc
\* diagnostic states a total of 3
C26_Witness ==
    /\ QualityReported
    /\ local.issues = 1
    /\ local.fmtFailed
    /\ Len(parseCargoDiagnostics(promise.result.stdout).value) = 1
    /\ EndsWith(response.text, FoundIssues(3))

---------------------------------------------------------------------------
(* No command is retried *)

\* the request names a directory that holds a Cargo.toml
ValidRequest ==
    /\ ~IsNullish(request.args)
    /\ Truthy(PathOf)
    /\ PathOf.s \in ProjectDirs

\* the number of subprocesses the tool of the request runs
CommandsOf(name) ==
    IF name = "bacon_quality" THEN 3
    ELSE IF name = UnknownToolName THEN 0
    ELSE 1

\* C27: no external command is retried. A valid request that has been
\* answered has spawned exactly one subprocess for a single-command tool,
\* three for bacon_quality and none for an unknown tool name, whatever the
\* exit codes, launch failures or parse results; no request ever spawns more
\* than that, and nothing is spawned once the response is returned.
\* (rust_project_info runs its one metadata command at most once: it runs
\* none when the Cargo.toml cannot be read.)
C27_NoCommandRetried ==
    /\ [](ValidRequest =>
            /\ Len(spawned) <= CommandsOf(request.name)
            /\ (pc = "responded" /\ request.name # "rust_project_info")
                    => Len(spawned) = CommandsOf(request.name))
    /\ [](~ValidRequest => spawned = <<>>)
    /\ [][/\ Len(spawned') \in {Len(spawned), Len(spawned) + 1}
          /\ pc = "responded" => spawned' = spawned]_vars

\* a single-command tool answered after a launch failure with one spawn
C27_Witness ==
    /\ ValidRequest
    /\ request.name \in SingleCommandTools
    /\ pc = "responded"
    /\ promise.result.exitCode # 0
    /\ promise.result.stderr = LaunchError
    /\ Len(spawned) = 1

---------------------------------------------------------------------------
(* The promise of runCargoCommand settles once *)

\* the CommandResult the close listener builds from the process as it stands
ResultAtClose(p, code) ==
    [stdout |-> p.stdout, stderr |-> p.stderr,
     exitCode |-> IF code.t = "number" THEN code.n ELSE 1]

\* the CommandResult the error listener builds from the process as it stands
ResultAtError(p) == [stdout |-> p.stdout, stderr |-> LaunchError, exitCode |-> 1]

\* C29: the promise of runCargoCommand settles exactly once per invocation.
\* The event that settles it is the first close or error event of the
\* process, and the CommandResult is the one that event builds; whatever is
\* delivered later for the same process (the other of the two events, more
\* data) leaves the result as it is.
C29_PromiseSettlesOnce ==
    /\ [](promise.settled <=> proc.phase \in {"closed", "errored", "done"})
    /\ [][spawned' = spawned =>
            /\ promise.settled => promise' = promise
            /\ (~promise.settled /\ promise'.settled) =>
                \/ /\ proc.phase = "running" /\ proc'.phase = "closed"
                   /\ promise'.result = ResultAtClose(proc, proc'.code)
                \/ /\ proc.phase = "running" /\ proc'.phase = "errored"
                   /\ promise'.result = ResultAtError(proc)]_vars

\* the process exited with success and then an error event was delivered:
\* the result is still the one of the close event
C29_Witness ==
    /\ proc.phase = "done"
    /\ promise.settled
    /\ promise.result.exitCode = 0
    /\ promise.result.stderr # LaunchError

---------------------------------------------------------------------------
(* Several summary lines in one test text *)

\* the counts of the summary line at index k of the text
TripleAt(k) == CHOOSE tr \in CountTriples : IsSummaryLineOf(EmittedLines[k], tr)

\* C30: when the test text holds several "test result: ..." lines, the
\* summary is derived from the first of them only. The counts of a later
\* line are neither taken instead nor added in, so the summary can differ
\* from the outcomes of the tests list.
C30_SummaryFromFirstOfSeveral ==
    (called /\ Cardinality(SummaryLineIndexes) >= 2) =>
        LET first == SetMin(SummaryLineIndexes)
        IN  /\ testResult.summary = ExpectedSummary(TripleAt(first))
            /\ \A k \in SummaryLineIndexes \ {first} :
                   TripleAt(k) # TripleAt(first)
                       => testResult.summary # ExpectedSummary(TripleAt(k))

\* the text of two test binaries, the first with "2 passed; 1 failed; 0
\* ignored" and the second with "10 passed; 0 failed; 3 ignored": the summary
\* has the counts of the first, and the tests list has no outcome at all
C30_Witness ==
    /\ called
    /\ Cardinality(SummaryLineIndexes) = 2
    /\ TripleAt(1).passed = S(<<"2">>)
    /\ TripleAt(2).passed = S(<<"1", "0">>)
    /\ testResult.summary = S(<<"2", " ", "p", "a", "s", "s", "e", "d", ",", " ",
                                "1", " ", "f", "a", "i", "l", "e", "d", ",", " ",
                                "0", " ", "i", "g", "n", "o", "r", "e", "d">>)
    /\ testResult.tests = <<>>

---------------------------------------------------------------------------
(* The CommandResult and the chunks of the two pipes *)

\* the text of a whole stream of bytes
TextOf(bytes) == toString(bytes)

\* the stream is well-formed UTF-8: its text has no replacement character
WellFormed(bytes) == \A k \in DOMAIN TextOf(bytes) : TextOf(bytes)[k] # [u |-> 65533]

\* the close event settled the promise, after every chunk had arrived
ResolvedAtClose ==
    /\ proc.phase \in {"closed", "done"}
    /\ promise.settled
    /\ promise.result.stderr # LaunchError

\* C28: for any interleaving of the data events of one subprocess whose two
\* streams are well-formed, the CommandResult resolved at the close event
\* has as stdout the text of all stdout chunks in arrival order and as
\* stderr the text of all stderr chunks in arrival order; the caller is
\* suspended until then; and the diagnostics parsed from the result are
\* those of the text as a whole, wherever it was cut into chunks.
C28_ResultIsTheTextOfTheChunks ==
    /\ (proc.phase = "running") => (pc = "awaiting" /\ ~promise.settled)
    /\ (ResolvedAtClose /\ WellFormed(proc.outBytes) /\ WellFormed(proc.errBytes)) =>
           /\ promise.result.stdout = TextOf(proc.outBytes)
           /\ promise.result.stderr = TextOf(proc.errBytes)
           /\ parseCargoDiagnostics(promise.result.stdout)
                  = parseCargoDiagnostics(TextOf(proc.outBytes))

---------------------------------------------------------------------------
(* Two requests in flight at once *)

\* the most data events of one subprocess when two requests are in flight
MaxPairChunks == 1

\* Each variable of the handler holds a pair, one component per request: a
\* handler invocation has its own path, cargoArgs and result, and each call
\* of runCargoCommand its own stdout, stderr and promise.  proc[i].delivered
\* is the list of the events delivered to the process of request i.
InitPair ==
    /\ ParserIdle
    /\ request \in [1..2 -> {r \in Requests :
                                /\ r.name \in {"bacon_check", "bacon_fmt_check"}
                                /\ r.args = JObj([path |-> JStr("/proj")])}]
    /\ pc = [i \in 1..2 |-> "received"]
    /\ local = [i \in 1..2 |-> NoLocal]
    /\ proc = [i \in 1..2 |-> [child |-> NoProc, delivered |-> <<>>]]
    /\ promise = [i \in 1..2 |-> NoPromise]
    /\ spawned = [i \in 1..2 |-> <<>>]
    /\ response = [i \in 1..2 |-> NoResponse]

\* the handler of request i passes the path check and the project check and
\* calls runCargoCommand
PairStart(i) ==
    /\ pc[i] = "received"
    /\ ~IsNullish(request[i].args)
    /\ Truthy(Prop(request[i].args, "path"))
    /\ validateRustProject(Prop(request[i].args, "path").s)
    /\ spawned' = [spawned EXCEPT ![i] =
                      Append(@, [args |-> CargoArgs(request[i].name, request[i].args),
                                 cwd |-> Prop(request[i].args, "path").s])]
    /\ proc' = [proc EXCEPT ![i].child = [NoProc EXCEPT !.phase = "running"]]
    /\ promise' = [promise EXCEPT ![i] = NoPromise]
    /\ pc' = [pc EXCEPT ![i] = "awaiting"]
    /\ UNCHANGED <<parserVars, request, local, response>>

\* data listeners that append to accumulators the two processes share
PairDataShared(i) ==
    /\ proc[i].child.phase \in {"running", "errored"}
    /\ proc[i].child.events < MaxPairChunks
    /\ \/ \E data \in StdoutChunks(spawned[i][1].args) :
            proc' = [j \in 1..2 |->
                [child |-> [proc[j].child EXCEPT
                               !.stdout = @ \o toString(data),
                               !.events = IF j = i THEN @ + 1 ELSE @,
                               !.outBytes = IF j = i THEN @ \o data ELSE @],
                 delivered |-> IF j = i
                               THEN Append(proc[j].delivered,
                                           [ev |-> "stdout", data |-> data])
                               ELSE proc[j].delivered]]
       \/ \E data \in StderrChunks :
            proc' = [j \in 1..2 |->
                [child |-> [proc[j].child EXCEPT
                               !.stderr = @ \o toString(data),
                               !.events = IF j = i THEN @ + 1 ELSE @,
                               !.errBytes = IF j = i THEN @ \o data ELSE @],
                 delivered |-> IF j = i
                               THEN Append(proc[j].delivered,
                                           [ev |-> "stderr", data |-> data])
                               ELSE proc[j].delivered]]
    /\ UNCHANGED <<parserVars, request, pc, local, promise, spawned, response>>

\* the data listeners of the process of request i: they append to the
\* stdout and stderr of that call of runCargoCommand
PairData(i) ==
    /\ proc[i].child.phase \in {"running", "errored"}
    /\ proc[i].child.events < MaxPairChunks
    /\ \/ \E data \in StdoutChunks(spawned[i][1].args) :
            proc' = [proc EXCEPT
                        ![i].child = [@ EXCEPT !.stdout = @ \o toString(data),
                                               !.events = @ + 1,
                                               !.outBytes = @ \o data],
                        ![i].delivered = Append(@, [ev |-> "stdout", data |-> data])]
       \/ \E data \in StderrChunks :
            proc' = [proc EXCEPT
                        ![i].child = [@ EXCEPT !.stderr = @ \o toString(data),
                                               !.events = @ + 1,
                                               !.errBytes = @ \o data],
                        ![i].delivered = Append(@, [ev |-> "stderr", data |-> data])]
    /\ UNCHANGED <<parserVars, request, pc, local, promise, spawned, response>>

\* the close listener of the process of request i
PairClose(i) ==
    /\ proc[i].child.phase \in {"running", "errored"}
    /\ \E code \in CloseCodes :
        /\ promise' = [promise EXCEPT ![i] =
                          IF @.settled THEN @
                          ELSE [settled |-> TRUE,
                                result |-> [stdout |-> proc[i].child.stdout,
                                            stderr |-> proc[i].child.stderr,
                                            exitCode |-> Coalesce(code, JNum(1)).n]]]
        /\ proc' = [proc EXCEPT
                       ![i].child = [@ EXCEPT
                                        !.phase = IF @ = "running" THEN "closed" ELSE "done",
                                        !.code = code],
                       ![i].delivered = Append(@, [ev |-> "close", code |-> code])]
    /\ UNCHANGED <<parserVars, request, pc, local, spawned, response>>

\* the error listener of the process of request i
PairError(i) ==
    /\ proc[i].child.phase \in {"running", "closed"}
    /\ promise' = [promise EXCEPT ![i] =
                      IF @.settled THEN @
                      ELSE [settled |-> TRUE,
                            result |-> [stdout |-> proc[i].child.stdout,
                                        stderr |-> LaunchError,
                                        exitCode |-> 1]]]
    /\ proc' = [proc EXCEPT
                   ![i].child = [@ EXCEPT
                                    !.phase = IF @ = "running" THEN "errored" ELSE "done"],
                   ![i].delivered = Append(@, [ev |-> "error"])]
    /\ UNCHANGED <<parserVars, request, pc, local, spawned, response>>

\* the handler of request i resumes with its CommandResult and returns
PairFinish(i) ==
    /\ pc[i] = "awaiting"
    /\ promise[i].settled
    /\ LET reply == ToolReply(request[i].name, request[i].args, promise[i].result)
       IN  response' = [response EXCEPT ![i] =
                           [sent |-> TRUE, text |-> reply.text,
                            isError |-> reply.isError]]
    /\ pc' = [pc EXCEPT ![i] = "responded"]
    /\ UNCHANGED <<parserVars, request, local, proc, promise, spawned>>

SpecPair ==
    InitPair /\ [][\E i \in 1..2 : \/ PairStart(i)
                                   \/ PairData(i)
                                   \/ PairClose(i)
                                   \/ PairError(i)
                                   \/ PairFinish(i)]_vars

\* the text one stream has delivered in the events h
RECURSIVE TextDelivered(_, _)
TextDelivered(h, stream) ==
    IF h = <<>> THEN <<>>
    ELSE (IF h[1].ev = stream THEN toString(h[1].data) ELSE <<>>)
             \o TextDelivered(Tail(h), stream)

\* the index of the first close or error event of h, 0 when there is none
SettlingEvent(h) ==
    IF \E k \in DOMAIN h : h[k].ev \in {"close", "error"}
    THEN SetMin({k \in DOMAIN h : h[k].ev \in {"close", "error"}})
    ELSE 0

\* the CommandResult of a process that is delivered the events h and no
\* others
ResultAlone(h) ==
    LET k == SettlingEvent(h)
        before == SubSeq(h, 1, k - 1)
    IN  IF h[k].ev = "close"
        THEN [stdout |-> TextDelivered(before, "stdout"),
              stderr |-> TextDelivered(before, "stderr"),
              exitCode |-> IF h[k].code.t = "number" THEN h[k].code.n ELSE 1]
        ELSE [stdout |-> TextDelivered(before, "stdout"),
              stderr |-> LaunchError,
              exitCode |-> 1]

\* the response to request i, handled alone with the events h
ResponseAlone(i, h) ==
    LET reply == ToolReply(request[i].name, request[i].args, ResultAlone(h))
    IN  [sent |-> TRUE, text |-> reply.text, isError |-> reply.isError]

\* C21: requests handled at once share no mutable state. For any
\* interleaving of the data, close and error events of two requests in
\* flight, the collected output, the command, the CommandResult and the
\* response of each request are those of that request handled alone with
\* the events of its own process: nothing of the other request enters them.
C21_ConcurrentRequestsShareNoState ==
    \A i \in 1..2 :
        LET h == proc[i].delivered
        IN  /\ proc[i].child.stdout = TextDelivered(h, "stdout")
            /\ proc[i].child.stderr = TextDelivered(h, "stderr")
            /\ promise[i].settled <=> SettlingEvent(h) # 0
            /\ promise[i].settled => promise[i].result = ResultAlone(h)
            /\ pc[i] # "received" =>
                   spawned[i] = <<[args |-> CargoArgs(request[i].name, request[i].args),
                                   cwd |-> Prop(request[i].args, "path").s]>>
            /\ pc[i] = "responded" => response[i] = ResponseAlone(i, h)
            /\ pc[i] # "responded" => response[i] = NoResponse

\* both handlers await their commands, of different tools: the process of
\* the first has written to its standard output and closed, the process of
\* the second has written to its standard output and is still running
C21_InFlightWitness ==
    /\ pc[1] = "awaiting" /\ pc[2] = "awaiting"
    /\ request[1].name # request[2].name
    /\ promise[1].settled
    /\ promise[1].result.stdout # <<>>
    /\ promise[1].result.stderr # LaunchError
    /\ ~promise[2].settled
    /\ proc[2].child.phase = "running"
    /\ proc[2].child.stdout # <<>>
    /\ proc[2].child.stdout # promise[1].result.stdout

===========================================================================
